---- MODULE Spec2Model ----
(***************************************************************************)
(* State-machine model of vitest-drizzle-mock: the MockHandler (ledger,    *)
(* entry list, specificity-ranked resolution), the MockController facade   *)
(* and the fluent MockBuilder.                                             *)
(*                                                                         *)
(* SQL text is a sequence of lexemes.  " " and "\n" are whitespace, "$1"   *)
(* and "$2" are numbered placeholders, "?" is the anonymous placeholder,   *)
(* "u.id" / "u.nm" stand for the qualified columns "users"."id" /          *)
(* "users"."name", and "id" / "nm" for the bare columns "id" / "name".     *)
(* Objects that the program shares by reference (entries, regular          *)
(* expressions) live in heaps and are named by their index.  A test holds  *)
(* one builder at a time, the one its latest on...() call returned; the    *)
(* builder objects are numbered in the order of their creation.            *)
(* Specificity scores are the program's scores times 100, so that the      *)
(* fractional structural scores stay integers.                             *)
(* RecordedCall.timestamp (Date.now()) is not modelled.                    *)
(* A function given to respondWith is "fnSync" (returns its value) or      *)
(* "fnAsync" (returns a promise); invocations lists the applications of    *)
(* these functions, each with the handle() call that made it and whether   *)
(* its promise has settled, and txOutcome is what the latest               *)
(* session.transaction(callback) call gave its caller.                     *)
(***************************************************************************)
EXTENDS Integers, Sequences, FiniteSets, TLC

VARIABLES entries, mocks, recordedCalls, builder, regexps, outcome, nCalls,
          invocations, txOutcome, lastCapturedConfig, lastRelationalMode,
          queries, prepared

vars == <<entries, mocks, recordedCalls, builder, regexps, outcome, nCalls,
          invocations, txOutcome, lastCapturedConfig, lastRelationalMode,
          queries, prepared>>

\* the state that mockDatabase(db) keeps in its closure and in the queries
\* made from db
database == <<lastCapturedConfig, lastRelationalMode, queries, prepared>>

(***************************************************************************)
(* Bounds of the model                                                     *)
(***************************************************************************)
MaxCalls == 3

MaxEntries == 2

MaxBuilders == 2

MaxQueue == 2

MaxFragments == 2

\* the fragments of a builder in a test that is not about fragments
ResolveFragments == 1

\* the calls of a test of fragment matching
MaxFragmentCalls == 1

\* the calls of an arrange-then-act test
ResolveCalls == 2

\* the builders of a test that works on one builder chain
QueueBuilders == 1

\* the calls of a test of the refinement methods
RefineCalls == 1

\* the calls of a test of structural matching
MaxShapeCalls == 1

\* relational queries created and not yet awaited
MaxRelational == 2

(***************************************************************************)
(* String primitives (JavaScript String / RegExp built-ins)                *)
(***************************************************************************)
IsSpace(c) == c \in {" ", "\n"}

RECURSIVE dropLeadingSpace(_)
dropLeadingSpace(s) ==
  IF s # <<>> /\ IsSpace(Head(s)) THEN dropLeadingSpace(Tail(s)) ELSE s

RECURSIVE collapseSpace(_)
collapseSpace(s) ==
  IF s = <<>> THEN <<>>
  ELSE IF IsSpace(Head(s))
       THEN <<" ">> \o collapseSpace(dropLeadingSpace(Tail(s)))
       ELSE <<Head(s)>> \o collapseSpace(Tail(s))

trim(s) ==
  LET t == dropLeadingSpace(s)
  IN IF t # <<>> /\ IsSpace(t[Len(t)]) THEN SubSeq(t, 1, Len(t) - 1) ELSE t

\* sql.replace(/\s+/g, " ").trim()
normalizeSql(sql) == trim(collapseSpace(sql))

\* a prefix test that wants s to be longer than p
startsWithProper(s, p) == Len(p) < Len(s) /\ SubSeq(s, 1, Len(p)) = p

\* s.startsWith(p)
startsWith(s, p) == Len(p) <= Len(s) /\ SubSeq(s, 1, Len(p)) = p

\* whether sub occurs in s at the 0-based position i
occursAt(s, sub, i) ==
  i >= 0 /\ i + Len(sub) <= Len(s) /\ SubSeq(s, i + 1, i + Len(sub)) = sub

\* s.indexOf(sub, from): the first 0-based position >= from, or -1
indexOf(s, sub, from) ==
  LET hits == {i \in from..Len(s) : occursAt(s, sub, i)}
  IN IF hits = {} THEN -1 ELSE CHOOSE i \in hits : \A j \in hits : i <= j

\* s.includes(sub)
includes(s, sub) == indexOf(s, sub, 0) >= 0

(***************************************************************************)
(* RegExp.prototype.test for a regular expression whose source is a        *)
(* literal, with the flags "" (none), "g" (global) or "y" (sticky).  The   *)
(* result is the pair of the answer and the object's lastIndex afterwards. *)
(***************************************************************************)
regexpTest(re, s) ==
  LET stateful == re.flags \in {"g", "y"}
      start == IF stateful THEN re.lastIndex ELSE 0
      at == IF start > Len(s) THEN -1
            ELSE IF re.flags = "y"
                 THEN (IF occursAt(s, re.source, start) THEN start ELSE -1)
                 ELSE indexOf(s, re.source, start)
  IN IF at < 0
     THEN [ok |-> FALSE, lastIndex |-> IF stateful THEN 0 ELSE re.lastIndex]
     ELSE [ok |-> TRUE,
           lastIndex |-> IF stateful THEN at + Len(re.source) ELSE re.lastIndex]

(***************************************************************************)
(* Values of the program                                                   *)
(***************************************************************************)
NoError == "none"

\* [type, data, fn]: MockResponse
dataResponse(data) == [type |-> "data", data |-> data, fn |-> "none"]

functionResponse(fn) == [type |-> "function", data |-> "undefined", fn |-> fn]

\* a call that carries no CapturedConfig
NoConfig ==
  [present |-> FALSE, operation |-> "", tableName |-> "", tableSchema |-> "undefined",
   columnKeys |-> {}]

\* the fields of MockMatcher; an optional field f is absent when hasF is FALSE
blankMatcher ==
  [type |-> "", sql |-> <<>>, hasParams |-> FALSE, params |-> <<>>,
   pattern |-> 0, substring |-> <<>>,
   operation |-> "", tableName |-> "", tableSchema |-> "undefined",
   hasColumnKeys |-> FALSE, columnKeys |-> {},
   hasFragments |-> FALSE, sqlFragments |-> <<>>]

(***************************************************************************)
(* mock-handler.ts: matching                                               *)
(***************************************************************************)
\* a comparison that stops at the end of the matcher's list
paramsEqualUpTo(a, b) ==
  /\ Len(a) <= Len(b)
  /\ \A i \in 1..Len(a) : a[i] = b[i]

paramsEqual(a, b) ==
  /\ Len(a) = Len(b)
  /\ \A i \in 1..Len(a) : a[i] = b[i]

\* "table"."col" -> "col"
stripTablePrefixes(sql) ==
  [i \in 1..Len(sql) |->
     CASE sql[i] = "u.id" -> "id"
       [] sql[i] = "u.nm" -> "nm"
       [] OTHER -> sql[i]]

\* $1, $2, ... -> ?
normalizeParamPlaceholders(sql) ==
  [i \in 1..Len(sql) |-> IF sql[i] \in {"$1", "$2"} THEN "?" ELSE sql[i]]

\* the number of placeholders among the first n lexemes of text
placeholdersBefore(text, n) == Cardinality({i \in 1..n : text[i] = "?"})

\* a fragment test that reads the call's parameters from their start
fragmentMatchesFromStart(frag, sql, params) ==
  LET text == normalizeParamPlaceholders(stripTablePrefixes(sql))
  IN /\ indexOf(text, frag.normalizedSql, 0) >= 0
     /\ \A i \in 1..Len(frag.params) :
          i <= Len(params) /\ params[i] = frag.params[i]

\* one SqlFragment against a call: the fragment occurs in the call's text and
\* the call's parameters from the occurrence's placeholder offset equal its own
fragmentMatches(frag, sql, params) ==
  LET text == normalizeParamPlaceholders(stripTablePrefixes(sql))
      idx == indexOf(text, frag.normalizedSql, 0)
      offset == placeholdersBefore(text, idx)
  IN /\ idx >= 0
     /\ \A i \in 1..Len(frag.params) :
          offset + i <= Len(params) /\ params[offset + i] = frag.params[i]

\* a structural test that lets a call without a descriptor pass
matchesStructuralOrBare(matcher, sql, params, config) ==
  \/ ~config.present
  \/ /\ matcher.operation = config.operation
     /\ matcher.tableName = config.tableName
     /\ matcher.tableSchema = config.tableSchema
     /\ matcher.hasColumnKeys => matcher.columnKeys \subseteq config.columnKeys

\* a structural test that wants the call to touch exactly the entry's keys
matchesStructuralSameKeys(matcher, sql, params, config) ==
  /\ config.present
  /\ matcher.operation = config.operation
  /\ matcher.tableName = config.tableName
  /\ matcher.tableSchema = config.tableSchema
  /\ matcher.hasColumnKeys => matcher.columnKeys = config.columnKeys

\* a structural test that takes findFirst and findMany for one operation
matchesStructuralAnyFind(matcher, sql, params, config) ==
  /\ config.present
  /\ \/ matcher.operation = config.operation
     \/ {matcher.operation, config.operation} = {"findFirst", "findMany"}
  /\ matcher.tableName = config.tableName
  /\ matcher.tableSchema = config.tableSchema
  /\ matcher.hasColumnKeys => matcher.columnKeys \subseteq config.columnKeys

\* the structural case of matches
matchesStructural(matcher, sql, params, config) ==
  /\ config.present
  /\ matcher.operation = config.operation
  /\ matcher.tableName = config.tableName
  /\ matcher.tableSchema = config.tableSchema
  /\ matcher.hasColumnKeys => matcher.columnKeys \subseteq config.columnKeys
  /\ matcher.hasFragments =>
       \A k \in 1..Len(matcher.sqlFragments) :
         fragmentMatches(matcher.sqlFragments[k], sql, params)

\* MockHandler.matches; rx is the heap of RegExp objects before the test
matches(matcher, sql, params, config, rx) ==
  CASE matcher.type = "sql-exact" ->
         /\ normalizeSql(matcher.sql) = sql
         /\ matcher.hasParams => paramsEqual(matcher.params, params)
    [] matcher.type = "sql-starts-with" ->
         /\ startsWith(sql, normalizeSql(matcher.sql))
         /\ matcher.hasParams => paramsEqual(matcher.params, params)
    [] matcher.type = "sql-pattern" ->
         /\ regexpTest(rx[matcher.pattern], sql).ok
         /\ matcher.hasParams => paramsEqual(matcher.params, params)
    [] matcher.type = "sql-contains" ->
         /\ includes(sql, matcher.substring)
         /\ matcher.hasParams => paramsEqual(matcher.params, params)
    [] matcher.type = "structural" -> matchesStructural(matcher, sql, params, config)

\* the RegExp heap after matches has run: pattern.test moves lastIndex
regexpsAfterMatch(matcher, sql, rx) ==
  IF matcher.type = "sql-pattern"
  THEN [rx EXCEPT ![matcher.pattern].lastIndex =
          regexpTest(rx[matcher.pattern], sql).lastIndex]
  ELSE rx

\* structural scores below those of every text matcher
structuralSpecificityLowest(matcher) ==
  IF matcher.hasFragments THEN 75
  ELSE IF matcher.hasColumnKeys THEN 50 ELSE 25

\* the structural scores 1.75 / 1.5 / 1.25, times 100
structuralSpecificity(matcher) ==
  IF matcher.hasFragments THEN 175
  ELSE IF matcher.hasColumnKeys THEN 150 ELSE 125

\* the scores 5 / 4 / 3 / 2 / 1, times 100
matcherSpecificity(matcher) ==
  CASE matcher.type = "sql-exact" -> IF matcher.hasParams THEN 500 ELSE 400
    [] matcher.type = "sql-starts-with" -> IF matcher.hasParams THEN 300 ELSE 200
    [] matcher.type \in {"sql-pattern", "sql-contains"} -> 100
    [] matcher.type = "structural" -> structuralSpecificity(matcher)

\* a first-match scan: the first accepting entry met is kept
replacesBestFirstMatch(bestMatch, specificity) == bestMatch.index = 0

\* line 155: the candidate replaces the best match found so far
replacesBest(bestMatch, specificity) ==
  bestMatch.index = 0 \/ specificity > bestMatch.specificity

\* lines 148-159: the reverse scan of the list ms of entries (objects of the
\* heap es) from position i down to 1 for the call c, threading the best
\* match so far and the RegExp heap.  accepted collects the entries whose
\* matches(...) call returned true; the program does not keep it.
RECURSIVE scanMocks(_, _, _, _, _, _, _)
scanMocks(ms, es, i, bestMatch, rx, accepted, c) ==
  IF i < 1 THEN [bestMatch |-> bestMatch, regexps |-> rx, accepted |-> accepted]
  ELSE LET mock == es[ms[i]]
       IN IF mock.consumed
          THEN scanMocks(ms, es, i - 1, bestMatch, rx, accepted, c)
          ELSE LET specificity == matcherSpecificity(mock.matcher)
                   ok == matches(mock.matcher, c.sql, c.params, c.config, rx)
               IN scanMocks(ms, es, i - 1,
                            IF ok /\ replacesBest(bestMatch, specificity)
                            THEN [index |-> i, specificity |-> specificity]
                            ELSE bestMatch,
                            regexpsAfterMatch(mock.matcher, c.sql, rx),
                            IF ok THEN accepted \cup {ms[i]} ELSE accepted,
                            c)

noBestMatch == [index |-> 0, specificity |-> 0]

(***************************************************************************)
(* Inputs: the queries, calls and responses a test can supply              *)
(***************************************************************************)
\* update "users" set "name" = $1 where "users"."id" = $2
UpdateWhereSql == <<"upd", " ", "nm", "=", "$1", " ", "u.id", "=", "$2">>

\* the same statement as a driver may hand it over, with whitespace runs
UpdateWhereRawSql ==
  <<"upd", " ", "\n", "nm", "=", "$1", " ", "u.id", "=", "$2", " ">>

\* update "users" set "name" = $1
UpdateSql == <<"upd", " ", "nm", "=", "$1">>

\* select 1, issued as raw SQL
RawSql == <<"sel">>

\* the tables of the schema: table[TableName] and table[TableSchema]
UsersTable == [name |-> "users", schema |-> "undefined"]

PostsTable == [name |-> "posts", schema |-> "undefined"]

AppUsersTable == [name |-> "users", schema |-> "app"]

Tables == {UsersTable, PostsTable, AppUsersTable}

\* the CapturedConfig of a query built on table for operation touching keys
capturedConfig(table, operation, keys) ==
  [present |-> TRUE, operation |-> operation, tableName |-> table.name,
   tableSchema |-> table.schema, columnKeys |-> keys]

UsersUpdateConfig ==
  [present |-> TRUE, operation |-> "update", tableName |-> "users",
   tableSchema |-> "undefined", columnKeys |-> {"nm"}]

\* toSQL() of db.update(users).set({name: 1}).where(eq(users.id, 1))
WhereQuery == [sql |-> UpdateWhereRawSql, params |-> <<1, 1>>]

\* toSQL() of the query builder handed to on()
Queries == { WhereQuery, [sql |-> UpdateSql, params |-> <<1>>] }

\* the (sql, params, capturedConfig) triples handed to handle()
Calls ==
  { [sql |-> UpdateWhereSql, params |-> <<1, 1>>, config |-> UsersUpdateConfig],
    [sql |-> UpdateWhereRawSql, params |-> <<1, 2>>, config |-> UsersUpdateConfig],
    [sql |-> RawSql, params |-> <<>>, config |-> NoConfig] }

\* the calls of a test that repeats one query and issues one no mock is for
RepeatedCalls ==
  { [sql |-> UpdateWhereRawSql, params |-> <<1, 1>>, config |-> UsersUpdateConfig],
    [sql |-> RawSql, params |-> <<>>, config |-> NoConfig] }

\* the operations of onUpdate, onFindFirst and onFindMany
ShapeOperations == {"update", "findFirst", "findMany"}

\* Object.keys of the objects given to set()
ShapeKeySets == { {"nm"}, {"nm", "em"} }

\* calls of one text that differ in the descriptor they carry: none (raw
\* SQL), updates of different tables and columns, and relational queries
ShapeCalls ==
  { [sql |-> UpdateWhereSql, params |-> <<1, 1>>, config |-> NoConfig] }
  \cup { [sql |-> UpdateWhereSql, params |-> <<1, 1>>,
          config |-> capturedConfig(t, "update", keys)] :
            t \in Tables, keys \in ShapeKeySets }
  \cup { [sql |-> RawSql, params |-> <<>>, config |-> capturedConfig(UsersTable, op, {})] :
            op \in {"findFirst", "findMany"} }

\* dialect.sqlToQuery of eq(users.id, v)
FragmentQueries ==
  { [sql |-> <<"u.id", "=", "$1">>, params |-> <<v>>] : v \in {1, 2} }

\* dialect.sqlToQuery of eq(users.id, v), eq(users.name, v) and
\* eq(users.email, 1); the statements have no email condition
WhereFragmentQueries ==
  FragmentQueries
  \cup { [sql |-> <<"u.nm", "=", "$1">>, params |-> <<v>>] : v \in {1, 2} }
  \cup { [sql |-> <<"em", "=", "$1">>, params |-> <<1>>] }

\* updates of users that differ in the values they set and filter by, and
\* an update without a where clause
FragmentCalls ==
  { [sql |-> UpdateWhereSql, params |-> ps, config |-> UsersUpdateConfig] :
       ps \in { <<1, 1>>, <<1, 2>>, <<2, 1>> } }
  \cup { [sql |-> UpdateSql, params |-> <<1>>, config |-> UsersUpdateConfig] }

RegExpSources == { <<"upd">> }

RegExpFlags == {"", "g"}

\* '"name" =', which the update statements contain
Substrings == { <<"nm", "=">> }

TableOperations == {"update"}

ColumnKeySets == { {"nm"} }

Data == {"d1", "d2"}

\* the responses of entries: data or a function
Responses == {[type |-> "data", data |-> "d1", fn |-> "none"]}
             \cup {[type |-> "function", data |-> "undefined", fn |-> f] :
                     f \in {"fnSync", "fnAsync"}}

Fns == {"fnSync", "fnAsync"}

Errors == {"E1", "E2"}

(***************************************************************************)
(* mock-handler.ts: MockHandler                                            *)
(***************************************************************************)
\* a value handle() resolves to
noValue == [data |-> "none", fn |-> "none", sql |-> <<>>, params |-> <<>>]

\* what the latest handle() call was given (call), which entries accepted it
\* (accepted), which entry answered it (winner) and what its caller got:
\* kind is "returned" (value), "threw" (error, an entry's failure) or
\* "unmatched" (error and the parts of its message)
noOutcome ==
  [kind |-> "none", call |-> [sql |-> <<>>, params |-> <<>>, config |-> NoConfig],
   accepted |-> {}, winner |-> 0, value |-> noValue, error |-> NoError,
   msgSql |-> <<>>, msgParams |-> <<>>, msgListed |-> <<>>]

\* the value undefined
undefinedValue == [noValue EXCEPT !.data = "undefined"]

\* how a transaction callback ended: it returned value, or it threw error
callbackReturned(value) == [kind |-> "returned", value |-> value, error |-> NoError]

callbackThrew(error) == [kind |-> "threw", value |-> noValue, error |-> error]

\* what session.transaction gave its caller (kind "resolved" with value, or
\* "rejected" with error) and how its callback had ended
noTransaction ==
  [kind |-> "none", value |-> noValue, error |-> NoError,
   callback |-> [kind |-> "none", value |-> noValue, error |-> NoError]]

\* a resolveResponse that applies the function to nothing
resolveResponseNoArguments(response, sql, params) ==
  IF response.type = "function"
  THEN [data |-> "computed", fn |-> response.fn, sql |-> <<>>, params |-> <<>>]
  ELSE [data |-> response.data, fn |-> "none", sql |-> <<>>, params |-> <<>>]

\* MockHandler.resolveResponse: a function response is applied to the call
resolveResponse(response, sql, params) ==
  IF response.type = "function"
  THEN [data |-> "computed", fn |-> response.fn, sql |-> sql, params |-> params]
  ELSE [data |-> response.data, fn |-> "none", sql |-> <<>>, params |-> <<>>]

\* the entry still holds a queued response
hasQueued(mock) == mock.hasQueue /\ mock.responseQueue # <<>>

\* a handler that keeps no handle logs
logNothing(mock, sql, params) == mock

\* handle.mock.calls.push([sql, params])
logCall(mock, sql, params) ==
  [mock EXCEPT !.calls = Append(@, [sql |-> sql, params |-> params])]

\* responseQueue.shift(); a one-shot entry is consumed with its last response
popQueue(mock) ==
  [mock EXCEPT !.responseQueue = Tail(@),
               !.consumed = IF Len(mock.responseQueue) = 1 /\ mock.once
                            THEN TRUE ELSE @]

\* a handler that never marks the winner consumed
consumeNever(mock) == mock

\* a handler that throws the winner's failure before it marks it consumed
consumeUnlessThrows(mock) ==
  [mock EXCEPT !.consumed = IF mock.once /\ mock.error = NoError THEN TRUE ELSE @]

\* a handler that marks the winner consumed one win late
consumeOnSecondWin(mock) ==
  [mock EXCEPT !.consumed = IF mock.once /\ Len(mock.calls) > 1 THEN TRUE ELSE @]

\* line 163: if (mock.once) mock.consumed = true
consumeOnce(mock) == [mock EXCEPT !.consumed = IF mock.once THEN TRUE ELSE @]

\* the winning entry after the call
winnerAfter(mock, sql, params) ==
  IF hasQueued(mock)
  THEN popQueue(logCall(mock, sql, params))
  ELSE consumeOnce(logCall(mock, sql, params))

\* a handler that throws an error of its own in place of the entry's
thrownAnew(mock) == "Error"

\* line 164: throw mock.error
thrown(mock) == mock.error

\* what the winning entry gives the caller
winnerOutcome(id, mock, sql, params) ==
  IF hasQueued(mock)
  THEN [noOutcome EXCEPT !.kind = "returned", !.winner = id,
          !.value = resolveResponse(Head(mock.responseQueue), sql, params)]
  ELSE IF mock.error # NoError
       THEN [noOutcome EXCEPT !.kind = "threw", !.winner = id, !.error = thrown(mock)]
       ELSE [noOutcome EXCEPT !.kind = "returned", !.winner = id,
               !.value = resolveResponse(mock.response, sql, params)]

\* an error message that lists the unconsumed entries only
unmatchedOutcomeListsLive(sql, params) ==
  [noOutcome EXCEPT !.kind = "unmatched", !.error = "No mock registered",
     !.msgSql = sql, !.msgParams = params,
     !.msgListed = SelectSeq(mocks, LAMBDA e : ~entries[e].consumed)]

\* lines 168-175: the error of a call no entry answers
unmatchedOutcome(sql, params) ==
  [noOutcome EXCEPT !.kind = "unmatched", !.error = "No mock registered",
     !.msgSql = sql, !.msgParams = params, !.msgListed = mocks]

\* a handler that puts the latest call first
recordCallAtFront(calls, sql, params) == <<[sql |-> sql, params |-> params]>> \o calls

\* a handler that does not record the call
recordNothing(calls, sql, params) == calls

\* lines 142-146: this.recordedCalls.push({sql: normalizedSql, params, ...})
recordCall(calls, sql, params) == Append(calls, [sql |-> sql, params |-> params])

\* an entry's failure is thrown after its function was applied
invocationBeforeThrow(mock, sql, params, n) ==
  IF ~hasQueued(mock) /\ mock.response.type = "function"
  THEN <<[call |-> n, result |-> resolveResponse(mock.response, sql, params),
          settled |-> mock.response.fn = "fnSync"]>>
  ELSE <<>>

\* lines 164-165, 224-225: the application of the winner's function that
\* the n-th handle() call makes, if it makes one; the promise of an async
\* function is pending when handle() returns
invocationOf(mock, sql, params, n) ==
  LET response == IF hasQueued(mock) THEN Head(mock.responseQueue) ELSE mock.response
  IN IF (hasQueued(mock) \/ mock.error = NoError) /\ response.type = "function"
     THEN <<[call |-> n, result |-> resolveResponse(response, sql, params),
             settled |-> response.fn = "fnSync"]>>
     ELSE <<>>

\* MockHandler.handle(sql, params, capturedConfig), as any caller sees it
handle(sql, params, config) ==
  /\ nCalls < MaxCalls
  /\ LET normalizedSql == normalizeSql(sql)
         call == [sql |-> normalizedSql, params |-> params, config |-> config]
         scan == scanMocks(mocks, entries, Len(mocks), noBestMatch, regexps, {}, call)
         index == scan.bestMatch.index
         seen == [call |-> call, accepted |-> scan.accepted]
     IN /\ recordedCalls' = recordCall(recordedCalls, normalizedSql, params)
        /\ regexps' = scan.regexps
        /\ IF index # 0
           THEN /\ entries' = [entries EXCEPT ![mocks[index]] =
                                 winnerAfter(@, normalizedSql, params)]
                /\ outcome' = [winnerOutcome(mocks[index], entries[mocks[index]],
                                             normalizedSql, params)
                                 EXCEPT !.call = seen.call, !.accepted = seen.accepted]
                /\ invocations' = invocations \o
                     invocationOf(entries[mocks[index]], normalizedSql, params, nCalls + 1)
           ELSE /\ entries' = entries
                /\ invocations' = invocations
                /\ outcome' = [unmatchedOutcome(normalizedSql, params)
                                 EXCEPT !.call = seen.call, !.accepted = seen.accepted]
  /\ nCalls' = nCalls + 1
  /\ UNCHANGED <<mocks, builder>>

\* a query issued by the test itself
Handle(sql, params, config) ==
  /\ handle(sql, params, config)
  /\ UNCHANGED <<txOutcome, database>>

\* the promise of the i-th application of an async function settles
Settle(i) ==
  /\ i \in 1..Len(invocations)
  /\ ~invocations[i].settled
  /\ invocations' = [invocations EXCEPT ![i].settled = TRUE]
  /\ UNCHANGED <<entries, mocks, recordedCalls, builder, regexps, outcome, nCalls,
                 txOutcome, database>>

\* the two fields of a MockHandler
handler == [mocks |-> mocks, recordedCalls |-> recordedCalls]

\* a reset that forgets the ledger
resetMocksOnly(h) == [h EXCEPT !.mocks = <<>>]

\* MockHandler.reset
reset(h) == [mocks |-> <<>>, recordedCalls |-> <<>>]

\* a resetCalls that drops the mocks as well
resetCallsAndMocks(h) == [mocks |-> <<>>, recordedCalls |-> <<>>]

\* MockHandler.resetCalls
resetCalls(h) == [h EXCEPT !.recordedCalls = <<>>]

\* MockHandler.resetMocks
resetMocks(h) == [h EXCEPT !.mocks = <<>>]

\* the handler's fields become those of h
becomes(h) ==
  /\ mocks' = h.mocks
  /\ recordedCalls' = h.recordedCalls
  /\ UNCHANGED <<entries, builder, regexps, outcome, nCalls, invocations, txOutcome, database>>

\* MockController.reset
Reset == becomes(reset(handler))

\* MockController.resetCalls
ResetCalls == becomes(resetCalls(handler))

\* MockController.resetMocks
ResetMocks == becomes(resetMocks(handler))

(***************************************************************************)
(* mock-database.ts: session.transaction                                   *)
(***************************************************************************)
\* a transaction that resolves to undefined whatever its callback threw
transactionSwallowsErrors(callback) ==
  IF callback.kind = "threw"
  THEN [kind |-> "resolved", value |-> undefinedValue, error |-> NoError,
        callback |-> callback]
  ELSE [kind |-> "resolved", value |-> callback.value, error |-> NoError,
        callback |-> callback]

\* lines 196-203: try { return await callback(tx) } catch (error) { ... }
transaction(callback) ==
  IF callback.kind = "threw"
  THEN IF callback.error = "TransactionRollbackError"
       THEN [kind |-> "resolved", value |-> undefinedValue, error |-> NoError,
             callback |-> callback]
       ELSE [kind |-> "rejected", value |-> noValue, error |-> callback.error,
             callback |-> callback]
  ELSE [kind |-> "resolved", value |-> callback.value, error |-> NoError,
        callback |-> callback]

\* how a callback ends that returns the result of the query with outcome o
callbackAfterQuery(o) ==
  IF o.kind = "returned" THEN callbackReturned(o.value) ELSE callbackThrew(o.error)

\* session.transaction(async (tx) => { tx.rollback() }): lines 187-189
TransactionRollback ==
  /\ txOutcome' = transaction(callbackThrew("TransactionRollbackError"))
  /\ UNCHANGED <<entries, mocks, recordedCalls, builder, regexps, outcome, nCalls,
                 invocations, database>>

\* session.transaction(async (tx) => data)
TransactionReturn(data) ==
  /\ txOutcome' = transaction(callbackReturned([noValue EXCEPT !.data = data]))
  /\ UNCHANGED <<entries, mocks, recordedCalls, builder, regexps, outcome, nCalls,
                 invocations, database>>

\* session.transaction(async (tx) => { throw error })
TransactionThrow(error) ==
  /\ txOutcome' = transaction(callbackThrew(error))
  /\ UNCHANGED <<entries, mocks, recordedCalls, builder, regexps, outcome, nCalls,
                 invocations, database>>

\* session.transaction(async (tx) => await tx.<query>): tx is made from the
\* mocked db (line 186), so that its query goes to the same handler
TransactionQuery(sql, params, config) ==
  /\ handle(sql, params, config)
  /\ txOutcome' = transaction(callbackAfterQuery(outcome'))
  /\ UNCHANGED database

\* session.transaction(async (tx) => { await tx.<query>; tx.rollback() })
TransactionQueryRollback(sql, params, config) ==
  /\ handle(sql, params, config)
  /\ txOutcome' = transaction(IF outcome'.kind = "returned"
                              THEN callbackThrew("TransactionRollbackError")
                              ELSE callbackThrew(outcome'.error))
  /\ UNCHANGED database

(***************************************************************************)
(* mock-controller.ts: MockController and MockBuilder                      *)
(***************************************************************************)
\* new MockBuilder(handler, matcher, dialect); class is the constructor used
\* and id the number of the new object
newBuilder(id, matcher, class) ==
  [id |-> id, class |-> class, matcher |-> matcher, matchParams |-> FALSE,
   isOnce |-> FALSE, isPartial |-> FALSE, fragments |-> <<>>, registeredEntry |-> 0]

\* before the first on...() call the test holds no builder
noBuilder == newBuilder(0, blankMatcher, "none")

\* MockController.structuralMatcherForTable
structuralMatcherForTable(table, operation) ==
  [blankMatcher EXCEPT !.type = "structural", !.operation = operation,
                       !.tableName = table.name, !.tableSchema = table.schema]

\* the builder class the controller's on<Operation>(table) method constructs
builderClass(operation) ==
  CASE operation = "insert" -> "MockInsertBuilder"
    [] operation = "update" -> "MockUpdateBuilder"
    [] OTHER -> "MockBuilder"

\* serializeSqlFragment, given dialect.sqlToQuery's result for the expression
serializeSqlFragment(query) ==
  [normalizedSql |-> normalizeParamPlaceholders(stripTablePrefixes(query.sql)),
   params |-> query.params]

\* a buildMatcher that carries matchParams into every text matcher
buildMatcherParamsEverywhere(b) ==
  IF b.matcher.type = "structural"
  THEN IF Len(b.fragments) > 0
       THEN [b.matcher EXCEPT !.hasFragments = TRUE, !.sqlFragments = b.fragments]
       ELSE b.matcher
  ELSE IF b.matcher.type = "sql-exact"
       THEN [blankMatcher EXCEPT
               !.type = IF b.isPartial THEN "sql-starts-with" ELSE "sql-exact",
               !.sql = b.matcher.sql,
               !.hasParams = b.matchParams,
               !.params = IF b.matchParams THEN b.matcher.params ELSE <<>>]
       ELSE [b.matcher EXCEPT !.hasParams = b.matchParams]

\* MockBuilder.buildMatcher
buildMatcher(b) ==
  IF b.matcher.type = "structural"
  THEN IF Len(b.fragments) > 0
       THEN [b.matcher EXCEPT !.hasFragments = TRUE, !.sqlFragments = b.fragments]
       ELSE b.matcher
  ELSE IF b.matcher.type = "sql-exact"
       THEN [blankMatcher EXCEPT
               !.type = IF b.isPartial THEN "sql-starts-with" ELSE "sql-exact",
               !.sql = b.matcher.sql,
               !.hasParams = b.matchParams,
               !.params = IF b.matchParams THEN b.matcher.params ELSE <<>>]
       ELSE b.matcher

\* the MockEntry object a finalizer of builder b creates.  matcherOf and
\* fragmentsOf name the builder whose matcher object, or whose fragments
\* array, the entry's matcher holds by reference (0: a fresh object).
newEntry(b, response, hasQueue, responseQueue, error, once) ==
  [matcher |-> buildMatcher(b), response |-> response, hasQueue |-> hasQueue,
   responseQueue |-> responseQueue, error |-> error, once |-> once,
   consumed |-> FALSE, calls |-> <<>>,
   matcherOf |-> IF b.matcher.type = "structural" /\ Len(b.fragments) = 0
                 THEN b.id ELSE 0,
   fragmentsOf |-> IF b.matcher.type = "structural" /\ Len(b.fragments) > 0
                   THEN b.id ELSE 0]

\* MockController.on(queryBuilder)
On(query) ==
  /\ builder.id < MaxBuilders
  /\ builder' = newBuilder(builder.id + 1,
                  [blankMatcher EXCEPT !.type = "sql-exact",
                     !.sql = normalizeSql(query.sql),
                     !.hasParams = TRUE, !.params = query.params],
                  "MockBuilder")
  /\ UNCHANGED <<entries, mocks, recordedCalls, regexps, outcome, nCalls, invocations, txOutcome, database>>

\* MockController.onInsert / onUpdate / onDelete / onSelect / onFindFirst / onFindMany
OnTable(table, operation) ==
  /\ builder.id < MaxBuilders
  /\ builder' = newBuilder(builder.id + 1,
                  structuralMatcherForTable(table, operation),
                  builderClass(operation))
  /\ UNCHANGED <<entries, mocks, recordedCalls, regexps, outcome, nCalls, invocations, txOutcome, database>>

\* MockController.onSql(pattern), with a RegExp object made for the call
OnSql(source, flags) ==
  /\ builder.id < MaxBuilders
  /\ regexps' = Append(regexps, [source |-> source, flags |-> flags, lastIndex |-> 0])
  /\ builder' = newBuilder(builder.id + 1,
                  [blankMatcher EXCEPT !.type = "sql-pattern",
                     !.pattern = Len(regexps) + 1],
                  "MockBuilder")
  /\ UNCHANGED <<entries, mocks, recordedCalls, outcome, nCalls, invocations, txOutcome, database>>

\* MockController.onSqlContaining(substring)
OnSqlContaining(substring) ==
  /\ builder.id < MaxBuilders
  /\ builder' = newBuilder(builder.id + 1,
                  [blankMatcher EXCEPT !.type = "sql-contains",
                     !.substring = substring],
                  "MockBuilder")
  /\ UNCHANGED <<entries, mocks, recordedCalls, regexps, outcome, nCalls, invocations, txOutcome, database>>

\* a refinement method throws new Error(message): the caller gets the error
\* and nothing else happens
throws(message) ==
  /\ outcome' = [noOutcome EXCEPT !.kind = "rejected", !.error = message]
  /\ UNCHANGED <<entries, mocks, recordedCalls, builder, regexps, nCalls, invocations, txOutcome, database>>

\* a partial() that sets the flag before it looks at the matcher
PartialMarksFirst ==
  /\ builder.id # 0
  /\ builder' = [builder EXCEPT !.isPartial = TRUE]
  /\ IF builder.matcher.type # "sql-exact"
     THEN outcome' = [noOutcome EXCEPT !.kind = "rejected",
                        !.error = ".partial() can only be used with .on()"]
     ELSE outcome' = outcome
  /\ UNCHANGED <<entries, mocks, recordedCalls, regexps, nCalls, invocations, txOutcome, database>>

\* MockBuilder.partial
Partial ==
  /\ builder.id # 0
  /\ IF builder.matcher.type = "structural"
     THEN throws(".partial() cannot be used with structural matchers")
     ELSE IF builder.matcher.type # "sql-exact"
          THEN throws(".partial() can only be used with .on()")
          ELSE /\ builder' = [builder EXCEPT !.isPartial = TRUE]
               /\ UNCHANGED <<entries, mocks, recordedCalls, regexps, outcome, nCalls, invocations, txOutcome, database>>

\* MockBuilder.withExactParams
WithExactParams ==
  /\ builder.id # 0
  /\ IF builder.matcher.type = "structural"
     THEN throws(".withExactParams() cannot be used with structural matchers")
     ELSE /\ builder' = [builder EXCEPT !.matchParams = TRUE]
          /\ UNCHANGED <<entries, mocks, recordedCalls, regexps, outcome, nCalls, invocations, txOutcome, database>>

\* MockBuilder.containingSql: this.fragments.push(...) also shows in every
\* registered matcher that holds this.fragments
ContainingSql(query) ==
  /\ builder.id # 0
  /\ IF builder.matcher.type # "structural"
     THEN throws(".containingSql() can only be used with structural matchers")
     ELSE /\ Len(builder.fragments) < MaxFragments
          /\ builder' = [builder EXCEPT !.fragments = Append(@, serializeSqlFragment(query))]
          /\ entries' = [e \in 1..Len(entries) |->
                           IF entries[e].fragmentsOf = builder.id
                           THEN [entries[e] EXCEPT !.matcher.sqlFragments =
                                   Append(@, serializeSqlFragment(query))]
                           ELSE entries[e]]
          /\ UNCHANGED <<mocks, recordedCalls, regexps, outcome, nCalls, invocations, txOutcome, database>>

\* MockBuilder.once
Once ==
  /\ builder.id # 0
  /\ builder' = [builder EXCEPT !.isOnce = TRUE]
  /\ UNCHANGED <<entries, mocks, recordedCalls, regexps, outcome, nCalls, invocations, txOutcome, database>>

\* MockInsertBuilder.values / MockUpdateBuilder.set: the assignment to
\* this.matcher.columnKeys also shows in every entry registered with this.matcher
Values(keys) ==
  /\ builder.class \in {"MockInsertBuilder", "MockUpdateBuilder"}
  /\ builder' = [builder EXCEPT !.matcher.hasColumnKeys = TRUE,
                                !.matcher.columnKeys = keys]
  /\ entries' = [e \in 1..Len(entries) |->
                   IF entries[e].matcherOf = builder.id
                   THEN [entries[e] EXCEPT !.matcher.hasColumnKeys = TRUE,
                                           !.matcher.columnKeys = keys]
                   ELSE entries[e]]
  /\ UNCHANGED <<mocks, recordedCalls, regexps, outcome, nCalls, invocations, txOutcome, database>>

\* a register that puts the new entry first
registerAtFront(entry) ==
  /\ Len(entries) < MaxEntries
  /\ entries' = Append(entries, entry)
  /\ mocks' = <<Len(entries) + 1>> \o mocks

\* MockHandler.register, of an entry object made for the call
register(entry) ==
  /\ Len(entries) < MaxEntries
  /\ entries' = Append(entries, entry)
  /\ mocks' = Append(mocks, Len(entries) + 1)

\* handler.register(entry) called with an entry object the caller built: an
\* exact-text entry for the update statement with any response, failure and
\* one-shot flag that the type MockEntry allows
RegisterEntry(response, error, once) ==
  /\ register([matcher |-> [blankMatcher EXCEPT !.type = "sql-exact",
                                                !.sql = normalizeSql(UpdateWhereRawSql)],
               response |-> response, hasQueue |-> FALSE, responseQueue |-> <<>>,
               error |-> error, once |-> once, consumed |-> FALSE, calls |-> <<>>,
               matcherOf |-> 0, fragmentsOf |-> 0])
  /\ UNCHANGED <<recordedCalls, builder, regexps, outcome, nCalls, invocations, txOutcome, database>>

\* a respondOnce that registers an entry on every call
RespondOnceRegistersAgain(data) ==
  /\ builder.id # 0
  /\ register(newEntry(builder, dataResponse("undefined"), TRUE,
                       <<dataResponse(data)>>, NoError, TRUE))
  /\ builder' = [builder EXCEPT !.registeredEntry = Len(entries) + 1]
  /\ UNCHANGED <<recordedCalls, regexps, outcome, nCalls, invocations, txOutcome, database>>

\* a respondOnce that puts a later response at the head of the queue
RespondOnceUnshift(data) ==
  /\ builder.id # 0
  /\ IF builder.registeredEntry = 0
     THEN /\ register(newEntry(builder, dataResponse("undefined"), TRUE,
                               <<dataResponse(data)>>, NoError, TRUE))
          /\ builder' = [builder EXCEPT !.registeredEntry = Len(entries) + 1]
     ELSE /\ Len(entries[builder.registeredEntry].responseQueue) < MaxQueue
          /\ entries' = [entries EXCEPT ![builder.registeredEntry].responseQueue =
                           <<dataResponse(data)>> \o @]
          /\ UNCHANGED <<mocks, builder>>
  /\ UNCHANGED <<recordedCalls, regexps, outcome, nCalls, invocations, txOutcome, database>>

\* MockBuilder.respondOnce
RespondOnce(data) ==
  /\ builder.id # 0
  /\ IF builder.registeredEntry = 0
     THEN /\ register(newEntry(builder, dataResponse("undefined"), TRUE,
                               <<dataResponse(data)>>, NoError, TRUE))
          /\ builder' = [builder EXCEPT !.registeredEntry = Len(entries) + 1]
     ELSE /\ Len(entries[builder.registeredEntry].responseQueue) < MaxQueue
          /\ entries' = [entries EXCEPT ![builder.registeredEntry].responseQueue =
                           Append(@, dataResponse(data))]
          /\ UNCHANGED <<mocks, builder>>
  /\ UNCHANGED <<recordedCalls, regexps, outcome, nCalls, invocations, txOutcome, database>>

\* a finalizer that leaves a respondOnce entry one-shot
finalizeKeepsOnce(response) ==
  /\ builder.id # 0
  /\ IF builder.registeredEntry # 0
     THEN /\ entries' = [entries EXCEPT ![builder.registeredEntry].response = response]
          /\ UNCHANGED mocks
     ELSE register(newEntry(builder, response, FALSE, <<>>, NoError, builder.isOnce))
  /\ UNCHANGED <<recordedCalls, builder, regexps, outcome, nCalls, invocations, txOutcome, database>>

\* a finalizer that makes a consumed respondOnce entry live again
finalizeRevives(response) ==
  /\ builder.id # 0
  /\ IF builder.registeredEntry # 0
     THEN /\ entries' = [entries EXCEPT ![builder.registeredEntry].response = response,
                                        ![builder.registeredEntry].once = FALSE,
                                        ![builder.registeredEntry].consumed = FALSE]
          /\ UNCHANGED mocks
     ELSE register(newEntry(builder, response, FALSE, <<>>, NoError, builder.isOnce))
  /\ UNCHANGED <<recordedCalls, builder, regexps, outcome, nCalls, invocations, txOutcome, database>>

\* a finalizer that makes a respondOnce entry one-shot when once() was called
finalizeHonoursOnce(response) ==
  /\ builder.id # 0
  /\ IF builder.registeredEntry # 0
     THEN /\ entries' = [entries EXCEPT ![builder.registeredEntry].response = response,
                                        ![builder.registeredEntry].once = builder.isOnce]
          /\ UNCHANGED mocks
     ELSE register(newEntry(builder, response, FALSE, <<>>, NoError, builder.isOnce))
  /\ UNCHANGED <<recordedCalls, builder, regexps, outcome, nCalls, invocations, txOutcome, database>>

\* the common body of respond and respondWith
finalize(response) ==
  /\ builder.id # 0
  /\ IF builder.registeredEntry # 0
     THEN /\ entries' = [entries EXCEPT ![builder.registeredEntry].response = response,
                                        ![builder.registeredEntry].once = FALSE]
          /\ UNCHANGED mocks
     ELSE register(newEntry(builder, response, FALSE, <<>>, NoError, builder.isOnce))
  /\ UNCHANGED <<recordedCalls, builder, regexps, outcome, nCalls, invocations, txOutcome, database>>

\* MockBuilder.respond
Respond(data) == finalize(dataResponse(data))

\* MockBuilder.respondWith
RespondWith(fn) == finalize(functionResponse(fn))

\* MockBuilder.throw
Throw(error) ==
  /\ builder.id # 0
  /\ register(newEntry(builder, dataResponse("undefined"), FALSE, <<>>, error,
                       builder.isOnce))
  /\ UNCHANGED <<recordedCalls, builder, regexps, outcome, nCalls, invocations, txOutcome, database>>

(***************************************************************************)
(* mock-database.ts: mockDatabase.  lastCapturedConfig and                 *)
(* lastRelationalMode are the variables of its closure, queries holds the  *)
(* relational queries that findFirst or findMany returned and nobody has   *)
(* awaited yet (drizzle builds a relational query when it is executed),    *)
(* and prepared is the latest mock prepared query: the query it was made   *)
(* for and the capturedConfig its execute() hands to handle().             *)
(***************************************************************************)
\* the value of lastRelationalMode that line 140 leaves
undefinedMode == "undefined"

\* before session.prepareQuery was called
noPrepared ==
  [made |-> FALSE,
   query |-> [kind |-> "", sql |-> <<>>, params |-> <<>>, operation |-> "",
              table |-> UsersTable, keys |-> {}, mode |-> undefinedMode],
   capturedConfig |-> NoConfig]

\* db.update(users).set({name: 1}).where(eq(users.id, 1)): its toSQL() and
\* its execution go through dialect.buildUpdateQuery
BuiltQueries ==
  { [kind |-> "built", sql |-> UpdateWhereRawSql, params |-> <<1, 1>>,
     operation |-> "update", table |-> UsersTable, keys |-> {"nm"},
     mode |-> undefinedMode] }

\* db.execute(sql`select 1`): no dialect build method is called
RawQueries ==
  { [kind |-> "raw", sql |-> RawSql, params |-> <<>>, operation |-> "",
     table |-> UsersTable, keys |-> {}, mode |-> undefinedMode] }

\* the tables under db.query
RelationalTables == {UsersTable, PostsTable}

\* select ... from t limit ..., the text of a relational query
RelationalSql == <<"sel", " ", "nm">>

\* the query object that db.query.<table>.findFirst() or findMany() returns
relationalQuery(table, mode) ==
  [kind |-> "relational", sql |-> RelationalSql, params |-> <<>>,
   operation |-> "select", table |-> table, keys |-> {}, mode |-> mode]

\* lines 27-35
extractColumnKeys(operation, config) ==
  IF operation \in {"update", "insert"} THEN config.keys ELSE {}

\* lines 113-127: the wrapper of dialect.buildUpdateQuery, buildInsertQuery,
\* buildDeleteQuery and buildSelectQuery; it gives lastCapturedConfig
dialectBuild(captured, insideRelationalBuild, operation, config) ==
  IF ~insideRelationalBuild
  THEN capturedConfig(config.table, operation, extractColumnKeys(operation, config))
  ELSE captured

\* lines 134-152: the wrapper of dialect.buildRelationalQueryWithoutPK, which
\* reads lastRelationalMode and whose original builds a select inside; it
\* gives lastCapturedConfig
buildRelationalQueryWithoutPK(mode, config) ==
  dialectBuild(capturedConfig(config.table,
                              IF mode = "first" THEN "findFirst" ELSE "findMany",
                              {}),
               TRUE, "select", config)

\* lines 176-180 and 44-49: session.prepareQuery takes lastCapturedConfig,
\* clears it, and the prepared query's execute() calls handler.handle
prepareQuery(query, captured) ==
  /\ prepared' = [made |-> TRUE, query |-> query, capturedConfig |-> captured]
  /\ lastCapturedConfig' = NoConfig
  /\ handle(query.sql, query.params, captured)
  /\ UNCHANGED txOutcome

\* mock.on(queryBuilder) with a query builder of the wrapped db: toSQL()
\* (mock-controller.ts line 136) runs the wrapped build method, and nothing is
\* prepared
OnQueryBuilder(q) ==
  /\ builder.id < MaxBuilders
  /\ builder' = newBuilder(builder.id + 1,
                  [blankMatcher EXCEPT !.type = "sql-exact",
                     !.sql = normalizeSql(q.sql),
                     !.hasParams = TRUE, !.params = q.params],
                  "MockBuilder")
  /\ lastCapturedConfig' = dialectBuild(lastCapturedConfig, FALSE, q.operation, q)
  /\ UNCHANGED <<entries, mocks, recordedCalls, regexps, outcome, nCalls,
                 invocations, txOutcome, lastRelationalMode, queries, prepared>>

\* await db.update(...)...: the query is built, prepared and executed
ExecuteBuilt(q) ==
  /\ prepareQuery(q, dialectBuild(lastCapturedConfig, FALSE, q.operation, q))
  /\ UNCHANGED <<lastRelationalMode, queries>>

\* await db.execute(sql`...`): the query is prepared and executed, not built
ExecuteRaw(q) ==
  /\ prepareQuery(q, lastCapturedConfig)
  /\ UNCHANGED <<lastRelationalMode, queries>>

\* lines 160-163: db.query.<table>.findFirst(), not awaited yet
FindFirst(table) ==
  /\ Len(queries) < MaxRelational
  /\ lastRelationalMode' = "first"
  /\ queries' = Append(queries, relationalQuery(table, "first"))
  /\ UNCHANGED <<entries, mocks, recordedCalls, builder, regexps, outcome, nCalls,
                 invocations, txOutcome, lastCapturedConfig, prepared>>

\* lines 167-170: db.query.<table>.findMany(), not awaited yet
FindMany(table) ==
  /\ Len(queries) < MaxRelational
  /\ lastRelationalMode' = "many"
  /\ queries' = Append(queries, relationalQuery(table, "many"))
  /\ UNCHANGED <<entries, mocks, recordedCalls, builder, regexps, outcome, nCalls,
                 invocations, txOutcome, lastCapturedConfig, prepared>>

\* the i-th pending relational query is awaited: it is built (lines 134-152),
\* prepared and executed
ExecuteRelational(i) ==
  /\ i \in 1..Len(queries)
  /\ prepareQuery(queries[i],
                  buildRelationalQueryWithoutPK(lastRelationalMode, queries[i]))
  /\ lastRelationalMode' = undefinedMode
  /\ queries' = [j \in 1..(Len(queries) - 1) |->
                   IF j < i THEN queries[j] ELSE queries[j + 1]]

(***************************************************************************)
(* The specification                                                       *)
(***************************************************************************)
Init ==
  /\ entries = <<>>
  /\ mocks = <<>>
  /\ recordedCalls = <<>>
  /\ builder = noBuilder
  /\ regexps = <<>>
  /\ outcome = noOutcome
  /\ nCalls = 0
  /\ invocations = <<>>
  /\ txOutcome = noTransaction
  /\ lastCapturedConfig = NoConfig
  /\ lastRelationalMode = undefinedMode
  /\ queries = <<>>
  /\ prepared = noPrepared

Next ==
  \/ \E c \in Calls : Handle(c.sql, c.params, c.config)
  \/ Reset
  \/ ResetCalls
  \/ ResetMocks
  \/ \E q \in Queries : On(q)
  \/ \E op \in TableOperations : OnTable(UsersTable, op)
  \/ \E src \in RegExpSources, fl \in RegExpFlags : OnSql(src, fl)
  \/ \E sub \in Substrings : OnSqlContaining(sub)
  \/ Partial
  \/ WithExactParams
  \/ \E q \in FragmentQueries : ContainingSql(q)
  \/ Once
  \/ \E keys \in ColumnKeySets : Values(keys)
  \/ \E d \in Data : RespondOnce(d)
  \/ \E d \in Data : Respond(d)
  \/ \E fn \in Fns : RespondWith(fn)
  \/ \E e \in Errors : Throw(e)
  \/ \E i \in 1..MaxCalls : Settle(i)
  \/ TransactionRollback
  \/ \E d \in Data : TransactionReturn(d)
  \/ \E e \in Errors : TransactionThrow(e)
  \/ \E c \in Calls : TransactionQuery(c.sql, c.params, c.config)
  \/ \E c \in Calls : TransactionQueryRollback(c.sql, c.params, c.config)
  \/ \E r \in Responses, e \in Errors \cup {NoError}, once \in BOOLEAN :
       RegisterEntry(r, e, once)
  \/ \E q \in BuiltQueries : OnQueryBuilder(q)
  \/ \E q \in BuiltQueries : ExecuteBuilt(q)
  \/ \E q \in RawQueries : ExecuteRaw(q)
  \/ \E t \in RelationalTables : FindFirst(t)
  \/ \E t \in RelationalTables : FindMany(t)
  \/ \E i \in 1..MaxRelational : ExecuteRelational(i)

Spec == Init /\ [][Next]_vars

(***************************************************************************)
(* Arrange, then act: a test registers its mocks with respond, calling     *)
(* each refinement on a builder that takes it, then issues its queries     *)
(***************************************************************************)
NextResolve ==
  \/ nCalls < ResolveCalls /\ \E c \in Calls : Handle(c.sql, c.params, c.config)
  \/ nCalls = 0 /\ \E q \in Queries : On(q)
  \/ nCalls = 0 /\ \E op \in TableOperations : OnTable(UsersTable, op)
  \/ nCalls = 0 /\ \E src \in RegExpSources, fl \in RegExpFlags : OnSql(src, fl)
  \/ nCalls = 0 /\ \E sub \in Substrings : OnSqlContaining(sub)
  \/ nCalls = 0 /\ builder.matcher.type = "sql-exact" /\ Partial
  \/ nCalls = 0 /\ builder.matcher.type # "structural" /\ WithExactParams
  \/ nCalls = 0 /\ builder.matcher.type = "structural"
       /\ Len(builder.fragments) < ResolveFragments
       /\ \E q \in FragmentQueries : ContainingSql(q)
  \/ nCalls = 0 /\ Once
  \/ nCalls = 0 /\ \E keys \in ColumnKeySets : Values(keys)
  \/ nCalls = 0 /\ \E d \in {"d1"} : Respond(d)

SpecResolve == Init /\ [][NextResolve]_vars

(***************************************************************************)
(* A builder chain is written out, then the queries are issued             *)
(***************************************************************************)
NextChain ==
  \/ \E c \in Calls : Handle(c.sql, c.params, c.config)
  \/ nCalls = 0 /\ On(WhereQuery)
  \/ nCalls = 0 /\ Once
  \/ nCalls = 0 /\ \E d \in Data : RespondOnce(d)
  \/ nCalls = 0 /\ \E d \in Data : Respond(d)
  \/ nCalls = 0 /\ \E fn \in Fns : RespondWith(fn)

SpecChain == Init /\ [][NextChain]_vars

(***************************************************************************)
(* One builder chain whose methods are called between the queries          *)
(***************************************************************************)
NextQueue ==
  \/ \E c \in RepeatedCalls : Handle(c.sql, c.params, c.config)
  \/ builder.id < QueueBuilders /\ On(WhereQuery)
  \/ Once
  \/ \E d \in Data : RespondOnce(d)
  \/ \E d \in Data : Respond(d)
  \/ \E fn \in Fns : RespondWith(fn)
  \/ \E e \in Errors : Throw(e)

SpecQueue == Init /\ [][NextQueue]_vars

(***************************************************************************)
(* Resets between the registrations and the queries                        *)
(***************************************************************************)
NextReset ==
  \/ nCalls < ResolveCalls /\ \E c \in RepeatedCalls : Handle(c.sql, c.params, c.config)
  \/ Reset
  \/ ResetCalls
  \/ ResetMocks
  \/ builder.id < QueueBuilders /\ On(WhereQuery)
  \/ builder.id < QueueBuilders
       /\ \E src \in RegExpSources, fl \in RegExpFlags : OnSql(src, fl)
  \/ Once
  \/ \E d \in Data : RespondOnce(d)
  \/ \E d \in Data : Respond(d)

SpecReset == Init /\ [][NextReset]_vars

(***************************************************************************)
(* Refinements called on builders of every kind, between registrations and *)
(* queries                                                                 *)
(***************************************************************************)
NextRefine ==
  \/ nCalls < RefineCalls /\ \E c \in RepeatedCalls : Handle(c.sql, c.params, c.config)
  \/ On(WhereQuery)
  \/ \E op \in TableOperations : OnTable(UsersTable, op)
  \/ \E src \in RegExpSources : OnSql(src, "")
  \/ \E sub \in Substrings : OnSqlContaining(sub)
  \/ Partial
  \/ WithExactParams
  \/ Len(builder.fragments) < ResolveFragments
       /\ \E q \in FragmentQueries : ContainingSql(q)
  \/ Once
  \/ \E keys \in ColumnKeySets : Values(keys)
  \/ \E d \in {"d1"} : Respond(d)

SpecRefine == Init /\ [][NextRefine]_vars

(***************************************************************************)
(* Structural entries for several tables and operations, and a substring   *)
(* entry, against calls that differ in their descriptor                    *)
(***************************************************************************)
NextShape ==
  \/ nCalls < MaxShapeCalls /\ \E c \in ShapeCalls : Handle(c.sql, c.params, c.config)
  \/ nCalls = 0 /\ \E t \in Tables, op \in ShapeOperations : OnTable(t, op)
  \/ nCalls = 0 /\ \E sub \in Substrings : OnSqlContaining(sub)
  \/ nCalls = 0 /\ \E keys \in ShapeKeySets : Values(keys)
  \/ nCalls = 0 /\ \E d \in {"d1"} : Respond(d)

SpecShape == Init /\ [][NextShape]_vars

(***************************************************************************)
(* Update entries refined by SQL fragments, against updates that differ in *)
(* their parameters and conditions                                         *)
(***************************************************************************)
NextFragment ==
  \/ nCalls < MaxFragmentCalls
       /\ \E c \in FragmentCalls : Handle(c.sql, c.params, c.config)
  \/ nCalls = 0 /\ OnTable(UsersTable, "update")
  \/ nCalls = 0 /\ \E q \in WhereFragmentQueries : ContainingSql(q)
  \/ nCalls = 0 /\ \E d \in Data : Respond(d)

SpecFragment == Init /\ [][NextFragment]_vars

(***************************************************************************)
(* Entries that compute their response, some asynchronously: further       *)
(* queries are issued and entries registered while earlier queries wait    *)
(***************************************************************************)
NextAsync ==
  \/ \E c \in Calls : Handle(c.sql, c.params, c.config)
  \/ builder.id < QueueBuilders /\ On(WhereQuery)
  \/ Once
  \/ \E d \in Data : RespondOnce(d)
  \/ \E fn \in Fns : RespondWith(fn)
  \/ \E i \in 1..MaxCalls : Settle(i)

SpecAsync == Init /\ [][NextAsync]_vars

(***************************************************************************)
(* Transactions whose callbacks return, throw, roll back and issue queries *)
(* that are answered, fail with a simulated error or fail unmatched        *)
(***************************************************************************)
NextTransaction ==
  \/ builder.id < QueueBuilders /\ On(WhereQuery)
  \/ \E d \in Data : Respond(d)
  \/ \E e \in Errors : Throw(e)
  \/ TransactionRollback
  \/ \E d \in Data : TransactionReturn(d)
  \/ \E e \in Errors : TransactionThrow(e)
  \/ \E c \in RepeatedCalls : TransactionQuery(c.sql, c.params, c.config)
  \/ \E c \in RepeatedCalls : TransactionQueryRollback(c.sql, c.params, c.config)

SpecTransaction == Init /\ [][NextTransaction]_vars

(***************************************************************************)
(* Entries handed to the handler directly, with every combination of       *)
(* response, failure and one-shot flag                                     *)
(***************************************************************************)
NextDirect ==
  \/ \E c \in RepeatedCalls : Handle(c.sql, c.params, c.config)
  \/ \E r \in Responses, e \in Errors \cup {NoError}, once \in BOOLEAN :
       RegisterEntry(r, e, once)
  \/ \E i \in 1..MaxCalls : Settle(i)

SpecDirect == Init /\ [][NextDirect]_vars

(***************************************************************************)
(* Queries of a wrapped database: built, raw and relational ones, the      *)
(* relational ones awaited in any order after they were created            *)
(***************************************************************************)
NextDatabase ==
  \/ \E q \in BuiltQueries : OnQueryBuilder(q)
  \/ \E op \in {"findFirst", "findMany"} : OnTable(UsersTable, op)
  \/ \E d \in {"d1"} : Respond(d)
  \/ \E q \in BuiltQueries : ExecuteBuilt(q)
  \/ \E q \in RawQueries : ExecuteRaw(q)
  \/ \E t \in RelationalTables : FindFirst(t)
  \/ \E t \in RelationalTables : FindMany(t)
  \/ \E i \in 1..MaxRelational : ExecuteRelational(i)

SpecDatabase == Init /\ [][NextDatabase]_vars

(***************************************************************************)
(* Properties                                                              *)
(***************************************************************************)
\* the step is a handle() call
HandleStep == nCalls' = nCalls + 1

\* the specificity scores as the documentation lists them, times 100
documentedScore(matcher) ==
  CASE matcher.type = "sql-exact" /\ matcher.hasParams -> 500
    [] matcher.type = "sql-exact" /\ ~matcher.hasParams -> 400
    [] matcher.type = "sql-starts-with" /\ matcher.hasParams -> 300
    [] matcher.type = "sql-starts-with" /\ ~matcher.hasParams -> 200
    [] matcher.type = "structural" /\ matcher.hasFragments -> 175
    [] matcher.type = "structural" /\ ~matcher.hasFragments /\ matcher.hasColumnKeys -> 150
    [] matcher.type = "structural" /\ ~matcher.hasFragments /\ ~matcher.hasColumnKeys -> 125
    [] matcher.type \in {"sql-pattern", "sql-contains"} -> 100

score(e) == documentedScore(entries[e].matcher)

\* the position of entry e in the handler's list (0: not registered)
position(e) ==
  IF \E i \in 1..Len(mocks) : mocks[i] = e
  THEN CHOOSE i \in 1..Len(mocks) : mocks[i] = e
  ELSE 0

\* the entries that accepted the call of outcome o with the highest score
topAccepted(o) == {e \in o.accepted : \A f \in o.accepted : score(f) <= score(e)}

\* C1: whenever one or more unconsumed entries accept a call, the entry that
\* answers it is one of them and none of them has a higher documented
\* specificity, whatever the order in which they were registered.
C1_HighestSpecificityWins ==
  [][(HandleStep /\ outcome'.accepted # {}) =>
       /\ outcome'.kind \in {"returned", "threw"}
       /\ outcome'.winner \in topAccepted(outcome')]_vars

\* C1 witness: a call was answered by an entry that outranks an accepting
\* entry registered after it.
C1_Witness ==
  /\ outcome.winner # 0
  /\ \E e \in outcome.accepted :
       /\ position(e) > position(outcome.winner)
       /\ position(outcome.winner) > 0
       /\ score(e) < score(outcome.winner)

\* C2: among the accepting entries of equal (highest) specificity the one
\* registered last answers the call, and it answers every later identical
\* call as well for as long as it is unconsumed.
C2_LastRegisteredKeepsWinning ==
  [][HandleStep =>
       /\ \A e \in topAccepted(outcome') : position(e) <= position(outcome'.winner)
       /\ ( /\ outcome.winner # 0
            /\ outcome'.call = outcome.call
            /\ \E e \in topAccepted(outcome) : e # outcome.winner
            /\ ~entries[outcome.winner].consumed )
          => outcome'.winner = outcome.winner]_vars

\* C3: a consumed entry is never given a call and stays consumed; an entry
\* marked once() is consumed by the call it answers; the call is answered by
\* the best (highest specificity, then latest) unconsumed accepting entry and
\* fails unmatched exactly when there is none.
C3_OneShotAnswersOnce ==
  [][HandleStep =>
       /\ \A e \in 1..Len(entries) : entries[e].consumed =>
            /\ entries'[e].consumed
            /\ e \notin outcome'.accepted
            /\ e # outcome'.winner
       /\ (outcome'.winner # 0 /\ entries[outcome'.winner].once) =>
            entries'[outcome'.winner].consumed
       /\ outcome'.accepted = {} <=> outcome'.kind = "unmatched"
       /\ outcome'.accepted # {} =>
            /\ outcome'.winner \in topAccepted(outcome')
            /\ \A e \in topAccepted(outcome') :
                 position(e) <= position(outcome'.winner)]_vars

\* C3 witness: a once() entry answered a call and was consumed, and the
\* identical next call was answered by another entry.
C3_Witness ==
  \E e \in 1..Len(entries) :
    /\ entries[e].once /\ entries[e].consumed
    /\ Len(entries[e].calls) = 1
    /\ Len(recordedCalls) = 2
    /\ recordedCalls[1] = recordedCalls[2]
    /\ entries[e].calls[1] = recordedCalls[1]
    /\ outcome.kind = "returned"
    /\ outcome.winner # e

\* entry e accepts the text, parameters and descriptor of call c
acceptsCall(e, c) == matches(entries[e].matcher, c.sql, c.params, c.config, regexps)

\* entry e is the one registered last
registeredLast(e) == Len(mocks) > 0 /\ mocks[Len(mocks)] = e

\* the fallback response of entry e, as the call c gets it
fallbackFor(e, c) == resolveResponse(entries[e].response, c.sql, c.params)

\* C4: an entry built by respondOnce calls gets each later response at the
\* tail of its queue; every call it wins while the queue is not empty
\* returns the response at the head of the queue and removes it; with the
\* queue empty the entry answers only if respond or respondWith was set on
\* the chain, and then with that fallback: a matching call reaching the
\* last registered such entry is answered by it, and without a fallback the
\* exhausted entry answers no call, the call failing unmatched when no
\* entry accepts it.
C4_QueueThenFallback ==
  [][ /\ \A e \in 1..Len(entries) : entries[e].hasQueue =>
           LET q == entries[e].responseQueue
               c == outcome'.call
           IN /\ (~HandleStep /\ entries'[e].responseQueue # q) =>
                    \E d \in Data : entries'[e].responseQueue = Append(q, dataResponse(d))
              /\ (HandleStep /\ outcome'.winner = e /\ q # <<>>) =>
                    /\ outcome'.kind = "returned"
                    /\ outcome'.value = resolveResponse(Head(q), c.sql, c.params)
                    /\ entries'[e].responseQueue = Tail(q)
              /\ (HandleStep /\ outcome'.winner = e /\ q = <<>>) =>
                    /\ ~entries[e].once
                    /\ outcome'.kind = "returned"
                    /\ outcome'.value = fallbackFor(e, c)
              /\ (HandleStep /\ q = <<>> /\ entries[e].once) => outcome'.winner # e
              /\ (HandleStep /\ ~entries[e].once /\ registeredLast(e) /\ acceptsCall(e, c)) =>
                    outcome'.winner = e
      /\ (HandleStep /\ outcome'.accepted = {}) => outcome'.kind = "unmatched" ]_vars

\* C4 witness: an entry with a fallback answered three calls, the third
\* with its fallback after its queue was drained.
C4_Witness ==
  \E e \in 1..Len(entries) :
    /\ entries[e].hasQueue /\ ~entries[e].once
    /\ entries[e].responseQueue = <<>>
    /\ Len(entries[e].calls) = 3
    /\ outcome.winner = e
    /\ entries[e].response.type = "data"
    /\ outcome.value.data = entries[e].response.data

\* a respond or respondWith step of the builder
FinalizerStep == (\E d \in Data : Respond(d)) \/ (\E fn \in Fns : RespondWith(fn))

\* respond or respondWith on a builder that has called respondOnce: no entry
\* is created, and the builder's entry keeps its queue and is not one-shot
convertsEntry ==
  (FinalizerStep /\ builder.registeredEntry # 0) =>
     LET r == builder.registeredEntry
     IN /\ Len(entries') = Len(entries)
        /\ mocks' = mocks
        /\ ~entries'[r].once
        /\ entries'[r].response.type \in {"data", "function"}
        /\ entries'[r].responseQueue = entries[r].responseQueue
        /\ \A e \in 1..Len(entries) : e # r => entries'[e] = entries[e]

\* a matching call reaching entry e is answered by e, from its queue while
\* that holds a response and with its fallback otherwise, and leaves e able
\* to answer again
answersAsFallback(e) ==
  LET c == outcome'.call
      q == entries[e].responseQueue
  IN (registeredLast(e) /\ acceptsCall(e, c)) =>
       /\ outcome'.winner = e
       /\ outcome'.kind = "returned"
       /\ outcome'.value = IF q # <<>> THEN resolveResponse(Head(q), c.sql, c.params)
                           ELSE fallbackFor(e, c)
       /\ ~entries'[e].consumed

\* C5 as stated: after respond or respondWith follows respondOnce on a
\* builder, the same entry is a persistent fallback for matching calls,
\* wherever the finalizer call falls among the calls that drain the queue.
C5_FallbackHoweverOrdered ==
  [][ /\ convertsEntry
      /\ HandleStep => \A e \in 1..Len(entries) :
           (entries[e].hasQueue /\ ~entries[e].once) => answersAsFallback(e) ]_vars

\* C5 amended: the same, for a finalizer called before the call that drains
\* the last queued response, that is while the entry is unconsumed; an entry
\* whose finalizer came later stays consumed and answers no call.
C5_FallbackWhenSetBeforeExhaustion ==
  [][ /\ convertsEntry
      /\ HandleStep => \A e \in 1..Len(entries) :
           (entries[e].hasQueue /\ ~entries[e].once) =>
              IF entries[e].consumed
              THEN outcome'.winner # e /\ entries'[e] = entries[e]
              ELSE answersAsFallback(e) ]_vars

\* C5 witness: the entry of a builder that called respondOnce and then a
\* plain finalizer answered the third of three calls with its fallback, its
\* queue drained and the entry still not consumed.
C5_Witness ==
  \E e \in 1..Len(entries) :
    /\ entries[e].hasQueue /\ ~entries[e].once /\ ~entries[e].consumed
    /\ entries[e].responseQueue = <<>>
    /\ Len(entries[e].calls) = 3
    /\ nCalls = 3
    /\ outcome.winner = e
    /\ outcome.value = fallbackFor(e, outcome.call)
    /\ builder.registeredEntry = e

\* C6: throw after respondOnce registers no further entry, and an error is
\* thrown for a call only when no registered entry of the chain that accepts
\* the call still holds a queued response.
C6_ThrowAfterRespondOnce ==
  [][ /\ ((\E er \in Errors : Throw(er)) /\ builder.registeredEntry # 0) =>
            Len(entries') = Len(entries) /\ mocks' = mocks
      /\ (HandleStep /\ outcome'.kind = "threw") =>
            \A e \in 1..Len(entries) :
               (position(e) > 0 /\ ~entries[e].consumed /\ acceptsCall(e, outcome'.call))
                  => ~hasQueued(entries[e]) ]_vars

\* C7: the first respondOnce of a builder registers one entry holding the
\* response; every later one appends its response to the tail of that
\* entry's queue and leaves every other entry and the list of registered
\* entries as they were, so a builder never has more than one queue entry.
C7_RespondOnceOneEntry ==
  [][ (\E d \in Data : RespondOnce(d)) =>
        /\ IF builder.registeredEntry = 0
           THEN /\ Len(entries') = Len(entries) + 1
                /\ mocks' = Append(mocks, Len(entries) + 1)
                /\ builder'.registeredEntry = Len(entries) + 1
                /\ \E d \in Data :
                     entries'[Len(entries) + 1].responseQueue = <<dataResponse(d)>>
                /\ \A e \in 1..Len(entries) : entries'[e] = entries[e]
           ELSE LET r == builder.registeredEntry
                IN /\ Len(entries') = Len(entries)
                   /\ mocks' = mocks
                   /\ builder'.registeredEntry = r
                   /\ \E d \in Data : entries'[r].responseQueue =
                        Append(entries[r].responseQueue, dataResponse(d))
                   /\ \A e \in 1..Len(entries) : e # r => entries'[e] = entries[e]
        /\ Cardinality({e \in 1..Len(entries') : entries'[e].hasQueue}) <= builder'.id ]_vars

\* C7 witness: a second respondOnce added to the queue of the entry the
\* first one registered, which is still the only entry.
C7_Witness ==
  /\ builder.registeredEntry = 1
  /\ Len(entries) = 1 /\ mocks = <<1>>
  /\ entries[1].responseQueue = <<dataResponse("d1"), dataResponse("d2")>>

\* the recorded text is free of leading, trailing and repeated whitespace
isNormalized(text) ==
  /\ \A i \in 1..Len(text) : text[i] # "\n"
  /\ Len(text) > 0 => ~IsSpace(text[1]) /\ ~IsSpace(text[Len(text)])
  /\ \A i \in 1..(Len(text) - 1) : ~(IsSpace(text[i]) /\ IsSpace(text[i + 1]))

\* C8: every handle() call appends exactly one record, the normalized text
\* and the parameters of the call, to the Ledger and leaves the earlier
\* records, whether the call returns, throws an entry's error or is unmatched.
C8_EveryCallRecorded ==
  [][ HandleStep =>
        /\ outcome'.kind \in {"returned", "threw", "unmatched"}
        /\ Len(recordedCalls') = Len(recordedCalls) + 1
        /\ SubSeq(recordedCalls', 1, Len(recordedCalls)) = recordedCalls
        /\ LET record == recordedCalls'[Len(recordedCalls')]
           IN /\ record = [sql |-> outcome'.call.sql, params |-> outcome'.call.params]
              /\ isNormalized(record.sql)
              /\ \E c \in RepeatedCalls :
                   record.sql = normalizeSql(c.sql) /\ record.params = c.params ]_vars

\* C8 witness: three calls, one returned, one unmatched and the last one
\* thrown, are all three on the Ledger.
C8_Witness ==
  /\ Len(recordedCalls) = 3
  /\ outcome.kind = "threw"
  /\ recordedCalls[3].sql = outcome.call.sql
  /\ recordedCalls[2].sql = RawSql
  /\ recordedCalls[1].sql = UpdateWhereSql

\* the entry that answers call c when the handler lists the entries ms of
\* the heap es and the regular expressions are in the states rx (0: none)
resolvesTo(ms, es, rx, c) ==
  LET best == scanMocks(ms, es, Len(ms), noBestMatch, rx, {},
                        [c EXCEPT !.sql = normalizeSql(c.sql)]).bestMatch
  IN IF best.index = 0 THEN 0 ELSE ms[best.index]

\* C9: reset() leaves no registered entry and no Ledger record; resetMocks()
\* leaves no registered entry and the Ledger as it was; resetCalls() leaves
\* no Ledger record and the registered entries as they were, their order,
\* consumed flags and queues included, so that every call resolves to the
\* entry it resolved to before.
C9_ResetEffects ==
  [][ /\ Reset => (mocks' = <<>> /\ recordedCalls' = <<>>)
      /\ ResetMocks => (mocks' = <<>> /\ recordedCalls' = recordedCalls)
      /\ ResetCalls =>
           /\ recordedCalls' = <<>>
           /\ mocks' = mocks
           /\ \A i \in 1..Len(mocks) :
                /\ entries'[mocks[i]].consumed = entries[mocks[i]].consumed
                /\ entries'[mocks[i]].responseQueue = entries[mocks[i]].responseQueue
                /\ entries'[mocks[i]] = entries[mocks[i]]
           /\ \A c \in Calls :
                resolvesTo(mocks', entries', regexps', c) =
                  resolvesTo(mocks, entries, regexps, c) ]_vars

\* C9 witness: the Ledger is empty after two calls while two entries, one of
\* them consumed, are still registered.
C9_Witness ==
  /\ recordedCalls = <<>>
  /\ nCalls = 2
  /\ Len(mocks) = 2
  /\ \E i \in 1..Len(mocks) : entries[mocks[i]].consumed

\* C10: after any of the three resets, applying the same reset again changes
\* nothing; resetCalls() after resetMocks() and resetMocks() after
\* resetCalls() both give what reset() gives; and in every state each reset
\* applied twice gives what it gives applied once.
C10_ResetsIdempotentAndCommute ==
  [][ /\ Reset => reset(handler') = handler'
      /\ ResetMocks =>
           /\ resetMocks(handler') = handler'
           /\ resetCalls(handler') = reset(handler)
      /\ ResetCalls =>
           /\ resetCalls(handler') = handler'
           /\ resetMocks(handler') = reset(handler)
      /\ (Reset \/ ResetMocks \/ ResetCalls) => UNCHANGED <<entries, builder, regexps>>
      /\ reset(reset(handler)) = reset(handler)
      /\ resetMocks(resetMocks(handler)) = resetMocks(handler)
      /\ resetCalls(resetCalls(handler)) = resetCalls(handler)
      /\ resetMocks(resetCalls(handler)) = reset(handler)
      /\ resetCalls(resetMocks(handler)) = reset(handler) ]_vars

\* C10 witness: after two entries were made and two calls recorded, the
\* resets have left neither a registered entry nor a record.
C10_Witness ==
  /\ handler = reset(handler)
  /\ nCalls = 2
  /\ Len(entries) = 2
  /\ \E e \in 1..Len(entries) : Len(entries[e].calls) > 0

\* the Ledger record of the call the latest handle() was given
recordOf(o) == [sql |-> o.call.sql, params |-> o.call.params]

\* C11: a call that no unconsumed entry accepts returns no value: handle()
\* fails with an error whose message holds the normalized text and the
\* parameters of the call and lists the matcher of every registered entry,
\* consumed ones included; with no entry registered it lists nothing.
C11_UnmatchedCallFails ==
  [][(HandleStep /\ outcome'.accepted = {}) =>
       /\ outcome'.kind = "unmatched"
       /\ outcome'.value = noValue
       /\ outcome'.winner = 0
       /\ outcome'.error # NoError
       /\ outcome'.msgSql = outcome'.call.sql
       /\ isNormalized(outcome'.msgSql)
       /\ \E c \in Calls : outcome'.msgSql = normalizeSql(c.sql)
                            /\ outcome'.msgParams = c.params
       /\ outcome'.msgParams = outcome'.call.params
       /\ outcome'.msgListed = mocks
       /\ (Len(mocks) = 0 <=> outcome'.msgListed = <<>>)]_vars

\* C11 witness: an unmatched call whose error lists two registered entries,
\* one of them consumed.
C11_Witness ==
  /\ outcome.kind = "unmatched"
  /\ Len(outcome.msgListed) = 2
  /\ \E i \in 1..2 : entries[outcome.msgListed[i]].consumed
  /\ \E i \in 1..2 : ~entries[outcome.msgListed[i]].consumed

\* C12: a handle() call that fails unmatched leaves every entry and the
\* order of the entries as they were and only appends its record to the
\* Ledger, and every call resolves after it to the entry it resolved to
\* before it.
C12_UnmatchedCallChangesNothing ==
  [][(HandleStep /\ outcome'.kind = "unmatched") =>
       /\ entries' = entries
       /\ mocks' = mocks
       /\ recordedCalls' = Append(recordedCalls, recordOf(outcome'))
       /\ \A c \in Calls :
            resolvesTo(mocks', entries', regexps', c) =
              resolvesTo(mocks, entries, regexps, c)]_vars

\* C13: a call won by an entry made with throw(error) fails with that
\* entry's error and returns no value, and its record is appended to the
\* Ledger and to the handle log of the entry.
C13_ThrowEntryRethrows ==
  [][HandleStep => \A e \in 1..Len(entries) :
       (outcome'.winner = e /\ entries[e].error # NoError) =>
          /\ outcome'.kind = "threw"
          /\ outcome'.error = entries[e].error
          /\ outcome'.value = noValue
          /\ recordedCalls' = Append(recordedCalls, recordOf(outcome'))
          /\ entries'[e].calls = Append(entries[e].calls, recordOf(outcome'))]_vars

\* C13 witness: of two entries with different errors one won a call, which
\* failed with that entry's error and is the last record of the Ledger and
\* of the entry's handle log.
C13_Witness ==
  /\ outcome.kind = "threw"
  /\ outcome.winner # 0
  /\ outcome.error = entries[outcome.winner].error
  /\ \E e \in 1..Len(entries) :
       entries[e].error \notin {NoError, outcome.error}
  /\ recordedCalls # <<>>
  /\ recordedCalls[Len(recordedCalls)] = recordOf(outcome)
  /\ entries[outcome.winner].calls # <<>>
  /\ entries[outcome.winner].calls[Len(entries[outcome.winner].calls)] = recordOf(outcome)

\* the number of records in all handle logs
RECURSIVE loggedUpTo(_, _)
loggedUpTo(es, n) == IF n = 0 THEN 0 ELSE Len(es[n].calls) + loggedUpTo(es, n - 1)

\* C14: a handle() call appends its (text, parameters) to the handle log of
\* the entry that wins it and to no other log, whether the other entries
\* reject the call or accept it and lose; no other step changes a handle
\* log; so the logs together hold as many records as calls were won.
C14_HandleLogCountsWins ==
  [][ /\ \A e \in 1..Len(entries) :
           entries'[e].calls =
             IF HandleStep /\ outcome'.winner = e
             THEN Append(entries[e].calls, recordOf(outcome'))
             ELSE entries[e].calls
      /\ \A e \in (Len(entries) + 1)..Len(entries') : entries'[e].calls = <<>>
      /\ loggedUpTo(entries', Len(entries')) =
           loggedUpTo(entries, Len(entries))
             + (IF HandleStep /\ outcome'.winner # 0 THEN 1 ELSE 0) ]_vars

\* C14 witness: two entries accepted each of two calls; the winner's log
\* holds both calls and the log of the entry that lost is empty.
C14_Witness ==
  /\ nCalls = 2
  /\ outcome.winner # 0
  /\ Len(entries[outcome.winner].calls) = 2
  /\ \E e \in outcome.accepted :
       e # outcome.winner /\ entries[e].calls = <<>>

\* the call threw and left the entries, their order, the Ledger and the
\* builder, with the refinements made on it so far, as they were
rejectedWithoutEffect ==
  /\ outcome'.kind = "rejected"
  /\ outcome'.error # NoError
  /\ entries' = entries
  /\ mocks' = mocks
  /\ recordedCalls' = recordedCalls
  /\ builder' = builder
  /\ regexps' = regexps

\* C15: partial() on a builder whose matcher is not exact-text,
\* withExactParams() on a structural builder and containingSql() on a
\* non-structural builder throw and change nothing; on the other builders
\* they do not throw.
C15_RefinementGuards ==
  [][ /\ Partial =>
           IF builder.matcher.type # "sql-exact"
           THEN rejectedWithoutEffect
           ELSE outcome' = outcome /\ builder'.isPartial
      /\ WithExactParams =>
           IF builder.matcher.type = "structural"
           THEN rejectedWithoutEffect
           ELSE outcome' = outcome /\ builder'.matchParams
      /\ (\E q \in FragmentQueries : ContainingSql(q)) =>
           IF builder.matcher.type # "structural"
           THEN rejectedWithoutEffect
           ELSE outcome' = outcome /\ Len(builder'.fragments) = Len(builder.fragments) + 1
    ]_vars

\* C15 witness: a refinement threw on a builder that had been refined and
\* had registered an entry, after a call was recorded.
C15_Witness ==
  /\ outcome.kind = "rejected"
  /\ builder.isOnce
  /\ builder.matcher.hasColumnKeys
  /\ Len(mocks) = 2
  /\ Len(recordedCalls) = 1

\* entry e is registered, not consumed and structural
liveStructural(e) ==
  /\ position(e) > 0
  /\ ~entries[e].consumed
  /\ entries[e].matcher.type = "structural"

\* the matcher of entry e and the descriptor cfg name the same operation,
\* entity and schema
sameShape(e, cfg) ==
  /\ entries[e].matcher.operation = cfg.operation
  /\ entries[e].matcher.tableName = cfg.tableName
  /\ entries[e].matcher.tableSchema = cfg.tableSchema

\* C16: a call without a descriptor is accepted by no structural entry and
\* testing it raises nothing: the call is answered by a text-based entry
\* that accepts it, or fails unmatched when there is none.
C16_BareCallSkipsStructural ==
  [][(HandleStep /\ ~outcome'.call.config.present) =>
       /\ \A e \in outcome'.accepted : entries[e].matcher.type # "structural"
       /\ IF outcome'.accepted = {}
          THEN outcome'.kind = "unmatched"
          ELSE /\ outcome'.kind = "returned"
               /\ outcome'.winner \in outcome'.accepted
               /\ entries[outcome'.winner].matcher.type # "structural"]_vars

\* C16 witness: a call without a descriptor was answered by a substring
\* entry although a structural entry registered later was waiting.
C16_Witness ==
  /\ nCalls = 1
  /\ ~outcome.call.config.present
  /\ outcome.kind = "returned"
  /\ entries[outcome.winner].matcher.type = "sql-contains"
  /\ \E e \in 1..Len(entries) :
       liveStructural(e) /\ position(e) > position(outcome.winner)

\* C17: a structural entry with column keys accepts a call whose descriptor
\* names its operation, entity and schema exactly when each of its keys is
\* among the keys of the call.
C17_ColumnKeysSubset ==
  [][HandleStep => \A e \in 1..Len(entries) :
       ( /\ liveStructural(e)
         /\ entries[e].matcher.hasColumnKeys
         /\ ~entries[e].matcher.hasFragments
         /\ outcome'.call.config.present
         /\ sameShape(e, outcome'.call.config) ) =>
          (e \in outcome'.accepted <=>
             \A k \in entries[e].matcher.columnKeys :
                k \in outcome'.call.config.columnKeys)]_vars

\* C17 witness: a call touching {nm, em} was accepted by an entry naming
\* {nm} and by an entry naming {nm, em}.
C17_Witness ==
  /\ nCalls = 1
  /\ outcome.call.config.columnKeys = {"nm", "em"}
  /\ \E e \in outcome.accepted :
       entries[e].matcher.hasColumnKeys /\ entries[e].matcher.columnKeys = {"nm"}
  /\ \E e \in outcome.accepted :
       entries[e].matcher.hasColumnKeys /\ entries[e].matcher.columnKeys = {"nm", "em"}

\* C18: a structural entry accepts a call only if the call carries a
\* descriptor with the entry's operation, entity name and entity schema; an
\* entry for findFirst accepts no findMany call and an entry for findMany no
\* findFirst call.
C18_ShapeMustAgree ==
  [][HandleStep => \A e \in outcome'.accepted :
       entries[e].matcher.type = "structural" =>
          /\ outcome'.call.config.present
          /\ sameShape(e, outcome'.call.config)
          /\ ~({entries[e].matcher.operation, outcome'.call.config.operation}
                 = {"findFirst", "findMany"})]_vars

\* C18 witness: with a findFirst entry and a findMany entry registered for
\* the same table, a findMany call was accepted by the findMany entry alone.
C18_Witness ==
  /\ nCalls = 1
  /\ outcome.call.config.operation = "findMany"
  /\ Cardinality(outcome.accepted) = 1
  /\ \E e \in 1..Len(entries) :
       /\ liveStructural(e)
       /\ entries[e].matcher.operation = "findFirst"
       /\ entries[e].matcher.tableName = outcome.call.config.tableName
       /\ entries[e].matcher.tableSchema = outcome.call.config.tableSchema
       /\ e \notin outcome.accepted

\* entry e is registered, not consumed, and its matcher is a text matcher
liveText(e) ==
  /\ position(e) > 0
  /\ ~entries[e].consumed
  /\ entries[e].matcher.type \in {"sql-exact", "sql-starts-with", "sql-pattern",
                                  "sql-contains"}

\* the answer of e's matcher depends on the call alone (a regular expression
\* with the global flag also looks at where its last search ended)
statelessText(e) ==
  entries[e].matcher.type = "sql-pattern" =>
    regexps[entries[e].matcher.pattern].flags = ""

\* text begins with the lexemes of prefix
beginsWith(text, prefix) ==
  /\ Len(prefix) <= Len(text)
  /\ \A i \in 1..Len(prefix) : text[i] = prefix[i]

\* part occurs somewhere in text
occursIn(text, part) ==
  \E k \in 0..(Len(text) - Len(part)) : \A i \in 1..Len(part) : text[k + i] = part[i]

\* the text of a call satisfies the matcher m
textSatisfies(m, text) ==
  CASE m.type = "sql-exact" -> text = m.sql
    [] m.type = "sql-starts-with" -> beginsWith(text, m.sql)
    [] m.type = "sql-pattern" -> occursIn(text, regexps[m.pattern].source)
    [] m.type = "sql-contains" -> occursIn(text, m.substring)

\* the parameter lists are of one length and equal at every index
sameParams(a, b) ==
  /\ Len(a) = Len(b)
  /\ \A i \in 1..Len(b) : a[i] = b[i]

\* entry e governs the call c by its text and, when present, its parameters
paramsGovern(e, c) ==
  LET m == entries[e].matcher
  IN e \in outcome'.accepted <=>
       /\ textSatisfies(m, c.sql)
       /\ m.hasParams => sameParams(m.params, c.params)

\* C19: a text-based entry whose matcher has parameters accepts a call iff
\* the text satisfies the matcher and the call's parameters have the same
\* length and the same value at every index; one without parameters
\* accepts every call whose text satisfies the matcher.
C19_ParamsGovernWhenPresent ==
  [][HandleStep => \A e \in 1..Len(entries) :
       liveText(e) => paramsGovern(e, outcome'.call)]_vars

\* The same rule for the text entries whose matcher is stateless.
C19_ParamsGovernStatelessText ==
  [][HandleStep => \A e \in 1..Len(entries) :
       (liveText(e) /\ statelessText(e)) => paramsGovern(e, outcome'.call)]_vars

\* C19 witness: of two exact-text entries for the text of the call, the one
\* without parameters accepted it and the one with other parameters did not.
C19_Witness ==
  /\ nCalls > 0
  /\ \E e \in outcome.accepted :
       /\ entries[e].matcher.type = "sql-exact"
       /\ ~entries[e].matcher.hasParams
  /\ \E e \in 1..Len(entries) :
       /\ liveText(e)
       /\ e \notin outcome.accepted
       /\ entries[e].matcher.type = "sql-exact"
       /\ entries[e].matcher.hasParams
       /\ entries[e].matcher.sql = outcome.call.sql
       /\ entries[e].matcher.params # outcome.call.params

\* C20: a prefix-text entry accepts a call iff the normalized text of the
\* call begins with the entry's text (equal texts included) and, when the
\* entry was made with withExactParams(), the parameter lists are equal.
C20_PrefixAccepts ==
  [][HandleStep => \A e \in 1..Len(entries) :
       (liveText(e) /\ entries[e].matcher.type = "sql-starts-with") =>
          LET m == entries[e].matcher
              c == outcome'.call
          IN /\ isNormalized(c.sql)
             /\ e \in outcome'.accepted <=>
                  /\ beginsWith(c.sql, m.sql)
                  /\ m.hasParams => sameParams(m.params, c.params)]_vars

\* C20 witness: a call was accepted by a prefix entry of shorter text and
\* rejected, for its parameters, by a prefix entry of the same text made
\* with withExactParams().
C20_Witness ==
  /\ nCalls > 0
  /\ \E e \in outcome.accepted :
       /\ entries[e].matcher.type = "sql-starts-with"
       /\ Len(entries[e].matcher.sql) < Len(outcome.call.sql)
  /\ \E e \in 1..Len(entries) :
       /\ liveText(e)
       /\ e \notin outcome.accepted
       /\ entries[e].matcher.type = "sql-starts-with"
       /\ entries[e].matcher.hasParams
       /\ entries[e].matcher.sql = outcome.call.sql

\* the call c carries the fragment: the fragment's text occurs in the text of
\* c, table prefixes and placeholder numbers apart, and the parameters of c
\* that follow the placeholders before the occurrence are the fragment's
carriesFragment(c, frag) ==
  LET text == normalizeParamPlaceholders(stripTablePrefixes(c.sql))
      part == frag.normalizedSql
  IN \E k \in 0..(Len(text) - Len(part)) :
       /\ \A i \in 1..Len(part) : text[k + i] = part[i]
       /\ LET before == Cardinality({i \in 1..k : text[i] = "?"})
          IN \A i \in 1..Len(frag.params) :
               /\ before + i <= Len(c.params)
               /\ c.params[before + i] = frag.params[i]

\* the fragments of m and n have the same texts and not the same parameters
differInParamsOnly(m, n) ==
  /\ Len(m.sqlFragments) = Len(n.sqlFragments)
  /\ \A k \in 1..Len(m.sqlFragments) :
       m.sqlFragments[k].normalizedSql = n.sqlFragments[k].normalizedSql
  /\ \E k \in 1..Len(m.sqlFragments) :
       m.sqlFragments[k].params # n.sqlFragments[k].params

\* C21: a structural entry with fragments accepts a call exactly when the
\* call's descriptor agrees with it and the call carries every one of its
\* fragments, whatever else the call's text and parameters hold; of two
\* entries whose fragments differ only in a parameter value no call is
\* accepted by both, and the winner's fragments are carried by the call.
C21_FragmentsMustBeCarried ==
  [][HandleStep => \A e \in 1..Len(entries) :
       (liveStructural(e) /\ entries[e].matcher.hasFragments) =>
          LET m == entries[e].matcher
              c == outcome'.call
          IN /\ e \in outcome'.accepted <=>
                  /\ c.config.present
                  /\ sameShape(e, c.config)
                  /\ m.hasColumnKeys => m.columnKeys \subseteq c.config.columnKeys
                  /\ \A k \in 1..Len(m.sqlFragments) :
                       carriesFragment(c, m.sqlFragments[k])
             /\ outcome'.winner = e =>
                  \A k \in 1..Len(m.sqlFragments) : carriesFragment(c, m.sqlFragments[k])
             /\ \A f \in 1..Len(entries) :
                  ( /\ liveStructural(f) /\ entries[f].matcher.hasFragments
                    /\ differInParamsOnly(m, entries[f].matcher) ) =>
                     ~(e \in outcome'.accepted /\ f \in outcome'.accepted)]_vars

\* C21 witness: of two entries with two fragments each that differ in the
\* value of the id condition, the one registered first won the call that
\* carries its value, and the later one did not accept it.
C21_Witness ==
  /\ nCalls = 1
  /\ outcome.winner # 0
  /\ Len(entries[outcome.winner].matcher.sqlFragments) = 2
  /\ \E f \in 1..Len(entries) :
       /\ position(f) > position(outcome.winner)
       /\ entries[f].matcher.hasFragments
       /\ differInParamsOnly(entries[outcome.winner].matcher, entries[f].matcher)
       /\ f \notin outcome.accepted

\* the types of the entries that accepted the call of outcome o
acceptedTypes(o) == {entries[e].matcher.type : e \in o.accepted}

\* C22 as stated: a call that a text-based entry of any kind accepts is not
\* won by a structural entry.
C22_StructuralLosesToText ==
  [][(HandleStep /\ acceptedTypes(outcome') \ {"structural"} # {}) =>
       entries[outcome'.winner].matcher.type # "structural"]_vars

\* C22 amended: a call that an exact-text or prefix-text entry accepts is
\* not won by a structural entry; a call accepted by structural entries and,
\* of the text-based ones, by pattern or substring entries only is won by a
\* structural entry.
C22_StructuralBetweenPrefixAndPattern ==
  [][HandleStep =>
       /\ acceptedTypes(outcome') \cap {"sql-exact", "sql-starts-with"} # {} =>
            entries[outcome'.winner].matcher.type \in {"sql-exact", "sql-starts-with"}
       /\ ( /\ "structural" \in acceptedTypes(outcome')
            /\ acceptedTypes(outcome') \subseteq {"structural", "sql-pattern", "sql-contains"} )
          => entries[outcome'.winner].matcher.type = "structural"]_vars

\* C22 witness: a structural entry won a call that a pattern or substring
\* entry registered after it accepted as well.
C22_Witness ==
  /\ outcome.winner # 0
  /\ entries[outcome.winner].matcher.type = "structural"
  /\ \E e \in outcome.accepted :
       /\ entries[e].matcher.type \in {"sql-pattern", "sql-contains"}
       /\ position(e) > position(outcome.winner)

\* the response that entry e gives the next call it wins
responseInEffect(e) ==
  IF entries[e].hasQueue /\ entries[e].responseQueue # <<>>
  THEN entries[e].responseQueue[1]
  ELSE entries[e].response

\* the step changes the record of no application, apart from settling it
invocationsKept ==
  /\ Len(invocations') >= Len(invocations)
  /\ \A i \in 1..Len(invocations) :
       /\ invocations'[i].call = invocations[i].call
       /\ invocations'[i].result = invocations[i].result
       /\ invocations[i].settled => invocations'[i].settled

\* C23: a call won by an entry whose response is a function applies that
\* function once, to the normalized text and the parameters of the call,
\* and handle() resolves to the result of that application, for a
\* synchronous and for an asynchronous function alike; no other step and
\* no other call applies a function.
C23_ComputeOncePerWin ==
  [][ /\ invocationsKept
      /\ IF /\ HandleStep
            /\ outcome'.winner # 0
            /\ outcome'.kind = "returned"
            /\ responseInEffect(outcome'.winner).type = "function"
         THEN /\ Len(invocations') = Len(invocations) + 1
              /\ LET application == invocations'[Len(invocations')]
                     c == outcome'.call
                 IN /\ application.call = nCalls'
                    /\ application.result.fn = responseInEffect(outcome'.winner).fn
                    /\ application.result.sql = c.sql
                    /\ application.result.params = c.params
                    /\ isNormalized(c.sql)
                    /\ outcome'.value = application.result
         ELSE Len(invocations') = Len(invocations) ]_vars

\* C23 witness: two calls with different parameters were answered by
\* functions, one synchronous and one asynchronous whose promise has
\* settled, each applied to the parameters of its call.
C23_Witness ==
  /\ Len(invocations) = 2
  /\ invocations[1].result.params # invocations[2].result.params
  /\ {invocations[1].result.fn, invocations[2].result.fn} = {"fnSync", "fnAsync"}
  /\ invocations[1].settled /\ invocations[2].settled
  /\ invocations[2].call = nCalls
  /\ outcome.value = invocations[2].result

\* the step is a session.transaction call
TransactionStep == txOutcome' # txOutcome

\* C24: session.transaction resolves to undefined when its callback called
\* tx.rollback(), resolves to what the callback returned when it returned,
\* and rejects with the very error the callback threw otherwise; the error
\* of a query of the callback that failed unmatched or with an entry's
\* simulated failure is such an error.
C24_TransactionOutcome ==
  [][TransactionStep =>
       LET t == txOutcome'
       IN /\ CASE t.callback.kind = "returned" ->
                    t.kind = "resolved" /\ t.value = t.callback.value
                 [] t.callback.kind = "threw"
                      /\ t.callback.error = "TransactionRollbackError" ->
                    t.kind = "resolved" /\ t.value.data = "undefined"
                 [] t.callback.kind = "threw"
                      /\ t.callback.error # "TransactionRollbackError" ->
                    t.kind = "rejected" /\ t.error = t.callback.error
          /\ (HandleStep /\ outcome'.kind \in {"threw", "unmatched"}) =>
                t.kind = "rejected" /\ t.error = outcome'.error
          /\ (HandleStep /\ outcome'.kind = "threw") =>
                t.error = entries[outcome'.winner].error
          /\ (HandleStep /\ outcome'.kind = "returned") =>
                /\ t.kind = "resolved"
                /\ t.value \in {outcome'.value, undefinedValue}]_vars

\* C24 witness: a transaction was rejected with the error of a query that
\* failed unmatched, after an earlier query had been answered.
C24_Witness ==
  /\ txOutcome.kind = "rejected"
  /\ outcome.kind = "unmatched"
  /\ txOutcome.error = outcome.error
  /\ nCalls = 2
  /\ \E e \in 1..Len(entries) : Len(entries[e].calls) = 1

\* a handle() call is suspended: the promise of its function has not settled
inFlight == \E i \in 1..Len(invocations) : ~invocations[i].settled

\* the step settles the promise of a function
SettleStep == ~HandleStep /\ invocations' # invocations

\* C25: a handle() call made while another call is suspended scans, picks
\* its winner, takes the head of the winner's queue and sets the consumed
\* flag in one step: it is not won by a consumed entry, the response it
\* takes from a queue is gone from the queue when it returns, a one-shot
\* winner without a further queued response is consumed when it returns,
\* and no other entry changes; the settling of a suspended call changes no
\* entry; so an entry marked once() that has no queue wins one call at most.
C25_ResolutionIsAtomic ==
  [][ /\ (HandleStep /\ inFlight) => \A e \in 1..Len(entries) :
            LET q == entries[e].responseQueue
            IN /\ entries[e].consumed => outcome'.winner # e
               /\ outcome'.winner # e => entries'[e] = entries[e]
               /\ (outcome'.winner = e /\ q # <<>>) =>
                     /\ outcome'.value =
                          resolveResponse(q[1], outcome'.call.sql, outcome'.call.params)
                     /\ entries'[e].responseQueue = SubSeq(q, 2, Len(q))
                     /\ (entries[e].once /\ Len(q) = 1) => entries'[e].consumed
               /\ (outcome'.winner = e /\ q = <<>> /\ entries[e].once) =>
                     entries'[e].consumed
      /\ SettleStep => (entries' = entries /\ mocks' = mocks /\ outcome' = outcome)
      /\ \A e \in 1..Len(entries') :
           (entries'[e].once /\ ~entries'[e].hasQueue) => Len(entries'[e].calls) <= 1 ]_vars

\* C25 witness: two calls are suspended, each won by another of two
\* one-shot entries, and the third call found both consumed.
C25_Witness ==
  /\ nCalls = 3
  /\ Len(invocations) = 2
  /\ ~invocations[1].settled /\ ~invocations[2].settled
  /\ outcome.kind = "unmatched"
  /\ Len(entries) = 2
  /\ \A e \in 1..2 : entries[e].once /\ entries[e].consumed /\ Len(entries[e].calls) = 1

\* C25 witness of the queue: while a call is suspended two later calls took
\* the two different responses of a queue, in their order.
C25_QueueWitness ==
  /\ nCalls = 3
  /\ Len(invocations) = 1
  /\ ~invocations[1].settled
  /\ \E e \in 1..Len(entries) :
       /\ entries[e].hasQueue /\ entries[e].consumed
       /\ entries[e].responseQueue = <<>>
       /\ Len(entries[e].calls) = 2
       /\ outcome.winner = e
       /\ outcome.value.data = "d2"

\* C26: without a reset in between, the k-th handle() call's record is the
\* k-th record of the Ledger, put there when the call is made, whether
\* earlier calls are still suspended or settle later or in another order;
\* a handle() call appends its record and leaves the earlier ones, and no
\* registration step and no settling changes the Ledger.
C26_LedgerInArrivalOrder ==
  [][ /\ IF HandleStep
         THEN recordedCalls' = Append(recordedCalls, recordOf(outcome'))
         ELSE recordedCalls' = recordedCalls
      /\ Len(recordedCalls') = nCalls'
      /\ \A i \in 1..Len(invocations') :
           LET application == invocations'[i]
           IN /\ application.call <= Len(recordedCalls')
              /\ recordedCalls'[application.call] =
                   [sql |-> application.result.sql, params |-> application.result.params]
    ]_vars

\* C26 witness: of three calls with different parameters the first is still
\* suspended and the second, made later, has settled; each of two entries
\* answered a call; the Ledger holds the three records in the order of
\* the calls.
C26_Witness ==
  /\ nCalls = 3
  /\ Len(recordedCalls) = 3
  /\ Len(invocations) >= 2
  /\ invocations[1].call = 1 /\ ~invocations[1].settled
  /\ invocations[2].call = 2 /\ invocations[2].settled
  /\ invocations[2].result.fn = "fnAsync"
  /\ recordedCalls[1].params # recordedCalls[2].params
  /\ recordedCalls[3].sql = RawSql
  /\ Len(entries) = 2
  /\ entries[2].calls # <<>> /\ entries[1].calls # <<>>

\* C27: in every step a consumed entry stays consumed, and a handle() call
\* is neither accepted nor won by it and adds nothing to its handle log,
\* also after respondOnce has queued a further response onto it or respond
\* or respondWith has given it a fallback.
C27_ConsumedIsFinal ==
  [][\A e \in 1..Len(entries) : entries[e].consumed =>
       /\ entries'[e].consumed
       /\ entries'[e].calls = entries[e].calls
       /\ HandleStep => (outcome'.winner # e /\ e \notin outcome'.accepted)]_vars

\* C27 witness: an entry consumed by the call that took its only queued
\* response was then given a further queued response and a fallback, and
\* the next call of the same statement failed unmatched.
C27_Witness ==
  /\ outcome.kind = "unmatched"
  /\ outcome.call.sql = UpdateWhereSql
  /\ \E e \in 1..Len(entries) :
       /\ entries[e].consumed
       /\ Len(entries[e].calls) = 1
       /\ entries[e].responseQueue # <<>>
       /\ ~entries[e].once
       /\ entries[e].response.data \in Data
       /\ entries[e].matcher.sql = outcome.call.sql

\* the step is made by a finalizer of the builder
BuilderStep ==
  \/ \E d \in Data : RespondOnce(d)
  \/ \E d \in Data : Respond(d)

\* C28: the list of registered entries changes only when a finalizer appends
\* one new entry at its end and when reset() or resetMocks() empties it; a
\* handle() call leaves the list as it is, consumed entries included, and
\* creates no entry; resetCalls() leaves the list as it is.
C28_EntrySetChanges ==
  [][ /\ \/ mocks' = mocks
         \/ /\ BuilderStep
            /\ Len(entries') = Len(entries) + 1
            /\ mocks' = Append(mocks, Len(entries'))
         \/ /\ Reset \/ ResetMocks
            /\ mocks' = <<>>
      /\ HandleStep =>
           /\ mocks' = mocks
           /\ Len(entries') = Len(entries)
           /\ \A i \in 1..Len(mocks) :
                entries[mocks[i]].consumed =>
                   (mocks'[i] = mocks[i] /\ entries'[mocks[i]].consumed)
      /\ ResetCalls => mocks' = mocks
      /\ Len(entries') > Len(entries) => mocks' = Append(mocks, Len(entries')) ]_vars

\* C28 witness: the entry registered last was consumed by the first call and
\* is still the second of the list after the second call, which the entry
\* registered first answered.
C28_Witness ==
  /\ nCalls = 2
  /\ mocks = <<1, 2>>
  /\ entries[2].consumed
  /\ ~entries[1].consumed
  /\ outcome.winner = 1
  /\ Len(recordedCalls) = 2

\* C29: a call won by an entry that has a failure and a function response
\* fails with the entry's failure, returns no value and applies no function.
C29_FailureBeforeCompute ==
  [][HandleStep => \A e \in 1..Len(entries) :
       ( /\ outcome'.winner = e
         /\ entries[e].error # NoError
         /\ entries[e].response.type = "function"
         /\ entries[e].responseQueue = <<>> ) =>
          /\ outcome'.kind = "threw"
          /\ outcome'.error = entries[e].error
          /\ outcome'.value = noValue
          /\ invocations' = invocations]_vars

\* C29 witness: the first call was answered by an entry's function; the
\* second was won by an entry with a failure and a function and failed, and
\* the only application is still that of the first call.
C29_Witness ==
  /\ nCalls = 2
  /\ outcome.kind = "threw"
  /\ entries[outcome.winner].response.type = "function"
  /\ entries[outcome.winner].error = outcome.error
  /\ Len(invocations) = 1
  /\ invocations[1].call = 1

\* entry e is one-shot, has a failure and no queue: once() ... throw(error)
oneShotThrow(e) ==
  /\ entries[e].once
  /\ entries[e].error # NoError
  /\ ~entries[e].hasQueue

\* C30: a one-shot entry made with throw(error) is consumed by the call it
\* wins, which fails with the entry's error; so it wins one call at most,
\* and a later call that it would accept is won by another entry that
\* accepts it or fails unmatched.
C30_OneShotThrowConsumed ==
  [][ /\ HandleStep => \A e \in 1..Len(entries) : oneShotThrow(e) =>
            /\ outcome'.winner = e =>
                 /\ ~entries[e].consumed
                 /\ outcome'.kind = "threw"
                 /\ outcome'.error = entries[e].error
                 /\ entries'[e].consumed
            /\ (entries[e].consumed /\ entries[e].calls # <<>>
                  /\ recordOf(outcome') = entries[e].calls[1]) =>
                 /\ outcome'.winner # e
                 /\ IF outcome'.accepted = {}
                    THEN outcome'.kind = "unmatched"
                    ELSE outcome'.winner \in outcome'.accepted
      /\ \A e \in 1..Len(entries) : oneShotThrow(e) => Len(entries'[e].calls) <= 1 ]_vars

\* C30 witness: the call that a one-shot throw entry had failed was made
\* again and answered by an entry registered before it.
C30_Witness ==
  /\ outcome.kind = "returned"
  /\ \E e \in 1..Len(entries) :
       /\ oneShotThrow(e) /\ entries[e].consumed
       /\ Len(entries[e].calls) = 1
       /\ entries[e].calls[1] = recordOf(outcome)
       /\ position(e) > position(outcome.winner)
       /\ position(outcome.winner) > 0

\* C30 witness of the unmatched case: the call that the one-shot throw
\* entry had failed was made again and failed unmatched.
C30_UnmatchedWitness ==
  /\ outcome.kind = "unmatched"
  /\ Len(mocks) = 1
  /\ oneShotThrow(mocks[1]) /\ entries[mocks[1]].consumed
  /\ entries[mocks[1]].calls = <<recordOf(outcome)>>

\* the calls of the set cs that the matcher m accepts
acceptedBy(m, cs) ==
  {c \in cs : matches(m, normalizeSql(c.sql), c.params, c.config, regexps)}

\* C31: no step changes the matcher of a registered entry: after values(),
\* set() or containingSql() on the builder that registered it the entry
\* accepts the calls it accepted before and has the specificity it had.
C31_RegisteredMatcherFixed ==
  [][\A e \in 1..Len(entries) : position(e) > 0 =>
       /\ entries'[e].matcher = entries[e].matcher
       /\ matcherSpecificity(entries'[e].matcher) = matcherSpecificity(entries[e].matcher)
       /\ acceptedBy(entries'[e].matcher, ShapeCalls) =
            acceptedBy(entries[e].matcher, ShapeCalls)]_vars

\* the entry whose handle the builder exposes after a finalizer: the one
\* handle() returns when respondOnce was called, else the one just made
exposedEntry == IF builder'.registeredEntry # 0
                THEN builder'.registeredEntry
                ELSE Len(entries')

\* C32: after respondOnce or respond returns, the entry whose handle the
\* builder exposes is in the list of registered entries, whatever resets
\* came before.
C32_FinalizedEntryRegistered ==
  [][BuilderStep => \E i \in 1..Len(mocks') : mocks'[i] = exposedEntry]_vars

\* The same without a reset between the finalizers of a builder.
C32_FinalizedEntryRegisteredNoReset ==
  [][((\E d \in Data : RespondOnce(d)) \/ FinalizerStep) =>
        \E i \in 1..Len(mocks') : mocks'[i] = exposedEntry]_vars

\* the descriptor captured by the build of query q itself: none for a query
\* that no build method makes; for a relational query, the one of the method
\* that created it
descriptorOf(q) ==
  CASE q.kind = "built" -> capturedConfig(q.table, q.operation, q.keys)
    [] q.kind = "relational" ->
         capturedConfig(q.table, IF q.mode = "first" THEN "findFirst" ELSE "findMany", {})
    [] OTHER -> NoConfig

\* C33: the descriptor delivered to handle() with a built or a raw query is
\* the one captured while building that same query; a raw query, which no
\* build method makes, is delivered without a descriptor, whatever was built
\* before it and never prepared.
C33_DescriptorOfSameQuery ==
  (prepared.made /\ prepared.query.kind \in {"built", "raw"}) =>
     /\ outcome.call.config = prepared.capturedConfig
     /\ prepared.capturedConfig = descriptorOf(prepared.query)

\* C33, the part that holds: a query that is built when it is executed is
\* delivered with its own descriptor, and every prepared query is delivered
\* with the descriptor its prepareQuery call took.
C33_BuiltQueryOwnDescriptor ==
  prepared.made =>
     /\ outcome.call.config = prepared.capturedConfig
     /\ prepared.query.kind = "built" =>
           prepared.capturedConfig = descriptorOf(prepared.query)

\* a built query was executed after on(queryBuilder) and got its descriptor
C33_BuiltWitness ==
  /\ prepared.made
  /\ prepared.query.kind = "built"
  /\ builder.id > 0
  /\ outcome.call.config = UsersUpdateConfig

\* C34: whatever the order in which relational queries are created and later
\* executed, the operation of the descriptor delivered with an executed
\* relational query is findFirst exactly when findFirst created that query,
\* and findMany otherwise.
C34_RelationalOperationOfCreator ==
  (prepared.made /\ prepared.query.kind = "relational") =>
     /\ outcome.call.config = prepared.capturedConfig
     /\ prepared.capturedConfig.operation = descriptorOf(prepared.query).operation

\* C34, the part that holds: the descriptor of an executed relational query
\* names the table of that query and one of the two relational operations.
C34_RelationalTableOfQuery ==
  (prepared.made /\ prepared.query.kind = "relational") =>
     /\ prepared.capturedConfig.tableName = prepared.query.table.name
     /\ prepared.capturedConfig.operation \in {"findFirst", "findMany"}
     /\ prepared.capturedConfig.columnKeys = {}

\* a relational query was executed while another one was still pending
C34_TableWitness ==
  /\ prepared.made
  /\ prepared.query.kind = "relational"
  /\ Len(queries) > 0

\* the step consumes no entry and takes nothing from a queue
nothingConsumed ==
  \A e \in 1..Len(entries) :
     /\ entries'[e].consumed = entries[e].consumed
     /\ entries'[e].responseQueue = entries[e].responseQueue

\* C35: resolution is deterministic in the call: after a handle() call that
\* consumed no entry and took nothing from a queue, the same call made again
\* at once is won by the same entry, or fails unmatched as the first did;
\* this includes entries whose regular expression has the global flag.
C35_SameCallSameWinner ==
  [][(HandleStep /\ nothingConsumed) =>
        resolvesTo(mocks', entries', regexps', outcome'.call) = outcome'.winner]_vars

\* C35, the part that holds: the same, when no live entry has a regular
\* expression with the global flag.
C35_SameCallSameWinnerStateless ==
  [][(HandleStep /\ nothingConsumed
        /\ \A e \in 1..Len(entries) : liveText(e) => statelessText(e)) =>
        resolvesTo(mocks', entries', regexps', outcome'.call) = outcome'.winner]_vars

\* a call was won by an entry whose regular expression has no flag, with
\* another entry registered
C35_StatelessWitness ==
  /\ outcome.kind = "returned"
  /\ entries[outcome.winner].matcher.type = "sql-pattern"
  /\ regexps[entries[outcome.winner].matcher.pattern].flags = ""
  /\ Len(mocks) > 1

\* parameter lists a call may carry
ParamLists == { <<>>, <<1, 1>>, <<1, 2>> }

\* the builder in hand was made by onSql or onSqlContaining
patternOrSubstringBuilder ==
  /\ builder.id # 0
  /\ builder.matcher.type \in {"sql-pattern", "sql-contains"}

\* the text test alone of a pattern or substring matcher m on sql
textTest(m, sql) ==
  IF m.type = "sql-pattern"
  THEN regexpTest(regexps[m.pattern], sql).ok
  ELSE includes(sql, m.substring)

\* C36: withExactParams() on a pattern or substring builder does not throw and
\* has no effect: the matcher the builder would register is the same before
\* and after, and an entry registered from such a builder carries no
\* parameters, accepts a call on its text alone whatever the parameters, and
\* has specificity 1.
C36_ExactParamsIgnored ==
  [][patternOrSubstringBuilder =>
       /\ WithExactParams =>
             /\ outcome' = outcome
             /\ builder'.matchParams
             /\ buildMatcher(builder') = buildMatcher(builder)
       /\ (builder.matchParams /\ Len(entries') = Len(entries) + 1) =>
             LET m == entries'[Len(entries')].matcher
             IN /\ ~m.hasParams
                /\ m.params = <<>>
                /\ matcherSpecificity(m) = 100
                /\ \A c \in Calls, ps \in ParamLists :
                      matches(m, normalizeSql(c.sql), ps, c.config, regexps)
                        <=> textTest(m, normalizeSql(c.sql))]_vars

\* withExactParams() was called on the one builder made, by onSql or
\* onSqlContaining, and the entry registered from it won a call that has
\* parameters
C36_Witness ==
  /\ patternOrSubstringBuilder
  /\ builder.id = 1
  /\ builder.matchParams
  /\ outcome.kind = "returned"
  /\ entries[outcome.winner].matcher = buildMatcher(builder)
  /\ outcome.call.params # <<>>

\* the entries whose handle log the step extends
logsExtended == { e \in 1..Len(entries) : entries'[e].calls # entries[e].calls }

\* C37: with no reset since the controller was created, the Ledger holds as
\* many records as all handle logs together plus the calls that failed
\* unmatched: both sides are 0 at the start and every step adds the same to
\* both; a handle() call extends at most one handle log, by exactly one
\* record, and no other step touches the Ledger or a log.
C37_LedgerBalance ==
  [][ /\ Len(recordedCalls') - Len(recordedCalls) =
           (loggedUpTo(entries', Len(entries')) - loggedUpTo(entries, Len(entries)))
             + (IF HandleStep /\ outcome'.kind = "unmatched" THEN 1 ELSE 0)
      /\ Cardinality(logsExtended) <= 1
      /\ \A e \in logsExtended :
            /\ HandleStep
            /\ Len(entries'[e].calls) = Len(entries[e].calls) + 1
      /\ Len(recordedCalls') = nCalls'
      /\ loggedUpTo(entries', Len(entries')) <= nCalls' ]_vars

\* three calls were made: two entries won one each and one call failed
\* unmatched
C37_Witness ==
  /\ Len(recordedCalls) = 3
  /\ loggedUpTo(entries, Len(entries)) = 2
  /\ \E e, f \in 1..Len(entries) :
        e # f /\ Len(entries[e].calls) = 1 /\ Len(entries[f].calls) = 1

\* the step is a handle() call that an entry won
WonStep == HandleStep /\ outcome'.winner # 0

\* the step leaves the regular expression of entry e's matcher, if it has
\* one, in the state it was in
patternUntouched(e) ==
  entries[e].matcher.type = "sql-pattern" =>
    regexps'[entries[e].matcher.pattern] = regexps[entries[e].matcher.pattern]

\* C38: a handle() call won by entry E changes only E's state and the
\* Ledger: every other entry, whether it rejected the call or accepted it and
\* lost, keeps its consumed flag, queue, response and handle log, and its
\* matcher with the regular expression in it; the list of entries is as it
\* was.
C38_OnlyWinnerChanges ==
  [][WonStep =>
       /\ mocks' = mocks
       /\ Len(entries') = Len(entries)
       /\ \A e \in 1..Len(entries) :
             e # outcome'.winner => (entries'[e] = entries[e] /\ patternUntouched(e))]_vars

\* C38, the part that holds: a handle() call won by E leaves the consumed
\* flag, queue, response and handle log of every other entry as they were,
\* changes of E only its consumed flag, its queue and its handle log, and
\* appends the call to the Ledger.
C38_OtherEntriesKeepFields ==
  [][WonStep =>
       /\ mocks' = mocks
       /\ Len(entries') = Len(entries)
       /\ recordedCalls' = Append(recordedCalls, recordOf(outcome'))
       /\ \A e \in 1..Len(entries) :
             IF e = outcome'.winner
             THEN entries'[e] = [entries[e] EXCEPT !.consumed = entries'[e].consumed,
                                                   !.responseQueue = entries'[e].responseQueue,
                                                   !.calls = entries'[e].calls]
             ELSE entries'[e] = entries[e]]_vars

\* a call was won by an entry that took a response from its queue, while
\* another live entry with a logged call accepted the call and lost
C38_FieldsWitness ==
  /\ outcome.winner # 0
  /\ entries[outcome.winner].hasQueue
  /\ \E e \in outcome.accepted :
        /\ e # outcome.winner
        /\ ~entries[e].consumed
        /\ Len(entries[e].calls) > 0

\* C39: once() has no part in a respondOnce chain: the entry that the first
\* respondOnce of a builder creates is one-shot whether or not once() was
\* called, a later respond or respondWith makes it persistent even if once()
\* was called, once() itself changes no entry, and no other step changes the
\* one-shot flag of an entry; a persistent entry is never consumed by a call
\* it wins.
C39_OnceIgnoredInChain ==
  [][ /\ ((\E d \in Data : RespondOnce(d)) /\ builder.registeredEntry = 0) =>
            /\ Len(entries') = Len(entries) + 1
            /\ entries'[Len(entries')].once
            /\ entries'[Len(entries')].hasQueue
      /\ (FinalizerStep /\ builder.registeredEntry # 0) =>
            ~entries'[builder.registeredEntry].once
      /\ Once => (entries' = entries /\ mocks' = mocks)
      /\ \A e \in 1..Len(entries) :
            /\ entries'[e].once # entries[e].once =>
                  (FinalizerStep /\ builder.registeredEntry = e)
            /\ (WonStep /\ outcome'.winner = e /\ ~entries[e].once) =>
                  ~entries'[e].consumed ]_vars

\* once() was called on the builder, its respondOnce entry was made
\* persistent by respond or respondWith, it has answered three calls, from
\* its queue and then as fallback, and it is still live
C39_Witness ==
  /\ builder.isOnce
  /\ builder.registeredEntry # 0
  /\ LET e == entries[builder.registeredEntry]
     IN /\ e.hasQueue
        /\ ~e.once
        /\ ~e.consumed
        /\ e.responseQueue = <<>>
        /\ Len(e.calls) = 3
====
